---------------------------- MODULE Spec2Model ----------------------------
(***************************************************************************)
(* Model of the date-indexed disk cache with fallback-chained retrieval of *)
(* src/core/api_client.py: CBRApiClient.get_rates (the synchronous         *)
(* resolver) and AsyncApiWorker (the bulk worker), sharing one cache       *)
(* directory.                                                              *)
(*                                                                         *)
(* Time is counted in hours; a calendar date is the number of whole days   *)
(* (now \div 24).  A cache file is a record of its content and its mtime.  *)
(* A provider response is either a JSON payload or one of the exceptions   *)
(* that requests raises.                                                   *)
(***************************************************************************)
EXTENDS Integers, Sequences, FiniteSets, TLC

(***************************************************************************)
(* Bounds of the model.                                                    *)
(***************************************************************************)
MaxFetches == 1
MaxTicks == 1
MaxRetriesCfg == 2
MaxBackoffRetries == 3
MaxDelayCfg == 2
MaxInitFiles == 1
MaxJobDates == 1

(***************************************************************************)
(* Program constants.                                                      *)
(***************************************************************************)
\* config.get('cache_duration_hours', 12)
cache_duration_hours == 12
\* config.get('retry_delay', 2)
default_retry_delay == 2
\* for days_back in range(0, 8)
LOOKBACK_RANGE == 8

(***************************************************************************)
(* Dates.  StartDay is the calendar date at construction; the clock        *)
(* advances in steps of one cache lifetime; the dates of                   *)
(* interest are the edges of the fallback window around it and one day     *)
(* after it.                                                               *)
(***************************************************************************)
StartDay == LOOKBACK_RANGE + 1
TickHours == cache_duration_hours
\* construction happens at noon of StartDay
StartNow == StartDay * 24 + TickHours
LastDay == (StartNow + MaxTicks * TickHours) \div 24
Keys == 0..(LastDay + 1)
DatesOfInterest ==
    {StartDay - LOOKBACK_RANGE, StartDay - LOOKBACK_RANGE + 1,
     StartDay, StartDay + 1}
\* get_rates(target_date=None)
NoDate == -1

(***************************************************************************)
(* Payloads: the JSON documents of the provider.  Date is the 'Date' key:  *)
(* absent, an ISO string of day d ("iso"), a string strptime rejects       *)
(* ("malformed"), or a JSON value that is no string ("nonstring").         *)
(* Valute is the currency map, in document order; an entry is the set of   *)
(* keys it has and its Nominal.                                            *)
(***************************************************************************)
CurrencyFields == {"ID", "NumCode", "CharCode", "Nominal", "Name", "Value", "Previous"}

IsoDate(d) == [k |-> "iso", d |-> d]
MalformedDate == [k |-> "malformed", d |-> 0]
NonStringDate == [k |-> "nonstring", d |-> 0]
AbsentDate == [k |-> "absent", d |-> 0]

\* rates are counted in hundredths of a kopeck
FullEntry == [has |-> CurrencyFields, Nominal |-> 1, Value |-> 9000, Previous |-> 8000]
PartEntry == [FullEntry EXCEPT !.has = CurrencyFields \ {"Value"}]

MkPayload(date, prev, present, entries) ==
    [Date |-> date, PreviousDate |-> prev,
     Valute |-> [present |-> present, entries |-> entries]]

GoodPayload(date) == MkPayload(date, TRUE, TRUE, <<FullEntry>>)

\* the value None of Python, where a payload is expected
NoPayload == MkPayload(AbsentDate, FALSE, FALSE, <<>>)

\* the dates the provider puts into its payloads
PayloadDates == {StartDay - LOOKBACK_RANGE + 1, StartDay, StartDay + 1}

\* the dates callers ask get_rates for
RequestDates == {StartDay - LOOKBACK_RANGE + 1, StartDay, StartDay + 1}

ValidShaped ==
    {GoodPayload(IsoDate(d)) : d \in PayloadDates}
        \cup {GoodPayload(MalformedDate), GoodPayload(NonStringDate)}

InvalidShaped ==
    {GoodPayload(AbsentDate),
     MkPayload(IsoDate(StartDay), TRUE, FALSE, <<>>),
     MkPayload(IsoDate(StartDay), TRUE, TRUE, <<>>),
     MkPayload(IsoDate(StartDay), TRUE, TRUE, <<PartEntry>>)}

ProviderPayloads == ValidShaped \cup InvalidShaped

(***************************************************************************)
(* Responses of one HTTP request: session.get, raise_for_status and        *)
(* response.json.                                                          *)
(***************************************************************************)
ErrorKinds == {"http404", "http500", "ConnectionError", "Timeout",
               "RequestException", "Exception"}
Responses ==
    {[kind |-> "json", data |-> p] : p \in ProviderPayloads}
        \cup {[kind |-> k, data |-> NoPayload] : k \in ErrorKinds}

\* a provider that gives few of them: a payload dated today, one dated
\* tomorrow, one without the currency map, a 404 and a connection error
FewResponses ==
    {[kind |-> "json", data |-> p] :
        p \in {GoodPayload(IsoDate(StartDay)), GoodPayload(IsoDate(StartDay + 1)),
               MkPayload(IsoDate(StartDay), TRUE, FALSE, <<>>)}}
        \cup {[kind |-> k, data |-> NoPayload] : k \in {"http404", "ConnectionError"}}

ResponsesOf(p) == IF p = "few" THEN FewResponses ELSE Responses

(***************************************************************************)
(* Cache files.                                                            *)
(***************************************************************************)
NoFile == [kind |-> "none", data |-> NoPayload, mtime |-> 0]
JsonFile(p, t) == [kind |-> "json", data |-> p, mtime |-> t]
CorruptFile(t) == [kind |-> "corrupt", data |-> NoPayload, mtime |-> t]

VARIABLES
    now,        \* datetime.now(), in hours
    ticks,      \* how often the clock has advanced
    config,     \* the configuration dictionary both classes read
    cache,      \* the cache directory: date key -> file
    provider,   \* the responses the provider may give in this run
    cpc,        \* position of the get_rates call
    creq,       \* its target_date
    cattempt,   \* its loop variable attempt
    cresult,    \* its return value
    clog,       \* what the call has done so far
    wpc,        \* position of the AsyncApiWorker
    wdates,     \* its dates
    wi,         \* the index i of run's loop
    wattempt,   \* the loop variable attempt of _fetch_from_api
    wrunning,   \* its _is_running
    wstopped,   \* stop() has been called on it
    wresult,    \* result_data of run
    wlog,       \* what the worker has done so far
    fetches,    \* number of fetches begun, by get_rates and by workers
    pcall,      \* a call of a function without state: [fn, arg]
    pret,       \* what it returned: [returned, raised, value]
    workers,    \* the AsyncApiWorker objects of the thread pool, by slot
    current_worker, \* CBRApiClient.current_worker: a slot, or 0 for None
    processed_data, \* DataHandler.processed_data
    last_update,    \* DataHandler.last_update, in hours, or NoStamp for None
    daily_cache,    \* DataHandler.daily_cache: date key -> snapshot
    is_loading,     \* MainWindow.is_loading
    refresh_calls,  \* the refresh_data calls past their guard, innermost last
    chart_loader,   \* the ChartLoader object: [_is_running]
    chart_loads     \* caller -> where its load_chart call stands

cvars == <<cpc, creq, cattempt, cresult, clog>>
wvars == <<wpc, wdates, wi, wattempt, wrunning, wstopped, wresult, wlog>>
pvars == <<pcall, pret>>
jvars == <<workers, current_worker>>
hvars == <<processed_data, last_update, daily_cache>>
uvars == <<is_loading, refresh_calls, chart_loader, chart_loads>>
vars == <<now, ticks, config, cache, provider, fetches, cvars, wvars, pvars, jvars,
          hvars, uvars>>

\* the date taken one day ahead
DateOf_ahead(t) == t \div 24 + 1

\* datetime.now().date() and date.today() at time t
DateOf(t) == t \div 24

Today == DateOf(now)


(***************************************************************************)
(* CBRApiClient._get_cache_filename names the file of a date by strftime   *)
(* '%Y%m%d'; _load_from_cache parses the date back out of the name with    *)
(* strptime '%Y%m%d'.  A date is a day number and the file name is the     *)
(* key of the directory.                                                   *)
(***************************************************************************)
CacheFilename(target_date) == target_date
FileDate(filename) == filename

(***************************************************************************)
(* Python truthiness of an Optional[Dict]: None and {} are falsy.          *)
(***************************************************************************)
Truthy(data) == data # NoPayload

(***************************************************************************)
(* CBRApiClient._validate_data.                                            *)
(***************************************************************************)
_validate_data(data) ==
    IF data.Date.k = "absent" \/ ~data.PreviousDate \/ ~data.Valute.present
    THEN FALSE
    ELSE IF data.Valute.entries = <<>>
    THEN FALSE
    ELSE LET first_currency == Head(data.Valute.entries)
         IN  IF first_currency.has # {}
             THEN CurrencyFields \subseteq first_currency.has
             ELSE TRUE

\* a file taken from the cache however old it is
_load_from_cache_ageless(c, target_date, t) ==
    IF ~config.cache_enabled \/ target_date > t \div 24
    THEN NoPayload
    ELSE IF c[target_date].kind = "json"
    THEN c[target_date].data
    ELSE NoPayload

\* a lookup that reads the file whatever cache_enabled says
_load_from_cache_always(c, target_date, t) ==
    IF target_date > t \div 24
    THEN NoPayload
    ELSE IF c[target_date].kind = "json" /\ t - c[target_date].mtime < cache_duration_hours
    THEN c[target_date].data
    ELSE NoPayload

\* today's file taken for a file of the future
_load_from_cache_strict(c, target_date, t) ==
    IF ~config.cache_enabled
    THEN NoPayload
    ELSE IF target_date >= t \div 24
    THEN NoPayload
    ELSE IF c[target_date].kind = "json" /\ t - c[target_date].mtime < cache_duration_hours
    THEN c[target_date].data
    ELSE NoPayload

(***************************************************************************)
(* CBRApiClient._load_from_cache, on cache directory c at time t.          *)
(***************************************************************************)
_load_from_cache(c, target_date, t) ==
    IF ~config.cache_enabled
    THEN NoPayload
    ELSE IF target_date > DateOf(t)
    THEN NoPayload
    ELSE IF c[target_date].kind = "none"
    THEN NoPayload
    ELSE IF FileDate(CacheFilename(target_date)) > DateOf(t)
    THEN NoPayload
    ELSE IF (t - c[target_date].mtime) * 3600 < cache_duration_hours * 3600
    THEN IF c[target_date].kind = "json"
         THEN c[target_date].data
         ELSE NoPayload
    ELSE NoPayload

(***************************************************************************)
(* CBRApiClient._save_to_cache.  disk is what the file system does with    *)
(* the write: "ok", "open_fails" (open raises, the file is untouched) or   *)
(* "dump_fails" (the file is truncated and json.dump raises).  The result  *)
(* is the new directory and the write events.                              *)
(***************************************************************************)
DiskOutcomes == {"ok", "open_fails", "dump_fails"}

\* only a response that carries a payload can lead to a write
DiskOutcomesFor(resp) == IF resp.kind = "json" THEN DiskOutcomes ELSE {"ok"}

\* a write that also rewrites the file of the day before
DiskEffect_spill(c, data, target_date, t, disk) ==
    IF disk = "ok" /\ target_date > 0
    THEN [c EXCEPT ![target_date] = JsonFile(data, t),
                   ![target_date - 1] = JsonFile(data, t)]
    ELSE c

DiskEffect(c, data, target_date, t, disk) ==
    CASE disk = "ok" -> [c EXCEPT ![target_date] = JsonFile(data, t)]
      [] disk = "dump_fails" -> [c EXCEPT ![target_date] = CorruptFile(t)]
      [] OTHER -> c

\* the disk error leaves the function
WriteFile_raising(c, data, target_date, t, disk) ==
    [cache |-> DiskEffect(c, data, target_date, t, disk),
     writes |-> <<[key |-> target_date, data |-> data, at |-> t, disk |-> disk]>>,
     raised |-> disk # "ok"]

\* the write leaves the file as it was
WriteFile_dropped(c, data, target_date, t, disk) ==
    [cache |-> c,
     writes |-> <<[key |-> target_date, data |-> data, at |-> t, disk |-> disk]>>,
     raised |-> FALSE]

\* the try block of _save_to_cache (lines 358-364): its except clause
\* catches every disk error, so nothing is raised
WriteFile(c, data, target_date, t, disk) ==
    [cache |-> DiskEffect(c, data, target_date, t, disk),
     writes |-> <<[key |-> target_date, data |-> data, at |-> t, disk |-> disk]>>,
     raised |-> FALSE]

_save_to_cache(c, data, target_date, t, disk) ==
    IF ~config.cache_enabled
    THEN [cache |-> c, writes |-> <<>>, raised |-> FALSE]
    ELSE IF target_date > DateOf(t)
    THEN [cache |-> c, writes |-> <<>>, raised |-> FALSE]
    ELSE WriteFile(c, data, target_date, t, disk)

\* the payload's date taken as it is
_get_cache_date_from_data_raw(data, t) ==
    CASE data.Date.k = "iso" -> [raised |-> FALSE, date |-> data.Date.d]
      [] data.Date.k = "nonstring" -> [raised |-> TRUE, date |-> NoDate]
      [] OTHER -> [raised |-> FALSE, date |-> t \div 24]

(***************************************************************************)
(* CBRApiClient._get_cache_date_from_data: the date, or the exception that *)
(* escapes (only ValueError and IndexError are caught).                    *)
(***************************************************************************)
_get_cache_date_from_data(data, t) ==
    CASE data.Date.k = "iso" ->
            IF data.Date.d > DateOf(t)
            THEN [raised |-> FALSE, date |-> DateOf(t)]
            ELSE [raised |-> FALSE, date |-> data.Date.d]
      [] data.Date.k = "malformed" -> [raised |-> FALSE, date |-> DateOf(t)]
      [] data.Date.k = "nonstring" -> [raised |-> TRUE, date |-> NoDate]
      [] OTHER -> [raised |-> FALSE, date |-> DateOf(t)]

(***************************************************************************)
(* CBRApiClient._get_last_available_cached_data.                           *)
(***************************************************************************)
NoHit == [date |-> NoDate, data |-> NoPayload]

RECURSIVE ScanBack(_, _, _, _)
ScanBack(c, t, days_back, stop) ==
    IF days_back >= stop
    THEN NoHit
    ELSE LET check_date == DateOf(t) - days_back
             cached_data == _load_from_cache(c, check_date, t)
         IN  IF check_date > DateOf(t)
             THEN ScanBack(c, t, days_back + 1, stop)
             ELSE IF Truthy(cached_data)
             THEN [date |-> check_date, data |-> cached_data]
             ELSE ScanBack(c, t, days_back + 1, stop)

\* a file that cannot be parsed ends the scan with nothing found
RECURSIVE ScanBack_abort(_, _, _, _)
ScanBack_abort(c, t, days_back, stop) ==
    IF days_back >= stop
    THEN NoHit
    ELSE LET check_date == DateOf(t) - days_back
             cached_data == _load_from_cache(c, check_date, t)
         IN  IF check_date > DateOf(t)
             THEN ScanBack_abort(c, t, days_back + 1, stop)
             ELSE IF c[check_date].kind = "corrupt"
             THEN NoHit
             ELSE IF Truthy(cached_data)
             THEN [date |-> check_date, data |-> cached_data]
             ELSE ScanBack_abort(c, t, days_back + 1, stop)

_get_last_available_cached_data_abort(c, t) == ScanBack_abort(c, t, 0, LOOKBACK_RANGE)

_get_last_available_cached_data_wide(c, t) == ScanBack(c, t, 0, LOOKBACK_RANGE + 1)

\* the cached data found, with the date it was found under
_get_last_available_cached_data(c, t) == ScanBack(c, t, 0, LOOKBACK_RANGE)

(***************************************************************************)
(* CBRApiClient._build_url_for_date: "" for a future date, the current     *)
(* rates location for today, the dated archive location otherwise.         *)
(***************************************************************************)
_build_url_for_date(target_date, t) ==
    IF target_date > DateOf(t)
    THEN ""
    ELSE IF target_date = DateOf(t)
    THEN "daily_json.js"
    ELSE "archive/daily_json.js"

\* a 404 retried like the other HTTP errors
Handling_retry404(resp) ==
    CASE resp.kind = "json" -> IF _validate_data(resp.data) THEN "ok" ELSE "ValueError"
      [] resp.kind \in {"http404", "http500", "ConnectionError", "Timeout", "RequestException"} -> "retry"
      [] OTHER -> "Exception"

\* an invalid payload retried like a transport error
Handling_retryInvalid(resp) ==
    CASE resp.kind = "json" -> IF _validate_data(resp.data) THEN "ok" ELSE "retry"
      [] resp.kind = "http404" -> "return_none"
      [] resp.kind \in {"http500", "ConnectionError", "Timeout", "RequestException"} -> "retry"
      [] OTHER -> "Exception"

\* the last clause, except Exception, left out: the error leaves get_rates
Handling_uncaught(resp) ==
    CASE resp.kind = "json" -> IF _validate_data(resp.data) THEN "ok" ELSE "ValueError"
      [] resp.kind = "http404" -> "return_none"
      [] resp.kind \in {"http500", "ConnectionError", "Timeout", "RequestException"} -> "retry"
      [] OTHER -> "escape"

(***************************************************************************)
(* The except clauses of get_rates, in their order: what the loop does     *)
(* with a response.                                                        *)
(***************************************************************************)
Handling(resp) ==
    CASE resp.kind = "json" -> IF _validate_data(resp.data) THEN "ok" ELSE "ValueError"
      [] resp.kind = "http404" -> "return_none"
      [] resp.kind \in {"http500", "ConnectionError", "Timeout", "RequestException"} -> "retry"
      [] OTHER -> "Exception"

\* delay = retry_delay * (2 ** attempt)
RECURSIVE Pow2(_)
Pow2(n) == IF n <= 0 THEN 1 ELSE 2 * Pow2(n - 1)

Backoff_shifted(attempt) == config.retry_delay * Pow2(attempt + 1)

Backoff(attempt) == config.retry_delay * Pow2(attempt)

\* if attempt < max_retries - 1
SleepsAfter(attempt) == attempt < config.max_retries - 1

LoopContinues_short(attempt) == attempt < config.max_retries - 1

LoopContinues_long(attempt) == attempt <= config.max_retries

\* for attempt in range(max_retries), in get_rates
LoopContinues(attempt) == attempt < config.max_retries

\* for attempt in range(max_retries), in _fetch_from_api
W_LoopContinues(attempt) == attempt < config.max_retries

\* what the cache directory holds for date d at time t: no file, a file that
\* does not parse, a file older than the cache lifetime, or a fresh one
FileState(c, d, t) ==
    IF d > t \div 24 \/ c[d].kind = "none" THEN "none"
    ELSE IF c[d].kind = "corrupt" THEN "corrupt"
    ELSE IF t - c[d].mtime < cache_duration_hours THEN "fresh"
    ELSE "stale"

\* the cache holds a fresh, readable file for date d at time t
HoldsFresh(c, d, t) ==
    /\ d <= t \div 24
    /\ c[d].kind = "json"
    /\ t - c[d].mtime < cache_duration_hours

EmptyLog ==
    [requests |-> 0, sleeps |-> <<>>, fallbacks |-> 0, last |-> "none",
     fetched |-> NoPayload, writes |-> <<>>, served |-> NoDate,
     warm |-> FALSE, held |-> NoPayload, file |-> "none"]

\* asked: the dates requested from the provider; via: who built the worker
EmptyWorkerLog ==
    [requests |-> 0, sleeps |-> <<>>, writes |-> <<>>, asked |-> {},
     via |-> "init"]

(***************************************************************************)
(* State after construction.  CBRApiClient.__init__ has run                *)
(* cleanup_old_cache, so the directory holds no file of a future date; the *)
(* files it holds were left by earlier runs: a payload stored under its    *)
(* own date, written just now or a cache lifetime ago, a file holding the  *)
(* empty object, or a file that does not parse.                            *)
(***************************************************************************)
Configs ==
    [max_retries : 0..MaxRetriesCfg, retry_delay : {default_retry_delay},
     cache_enabled : BOOLEAN]

InitFile(d, kind) ==
    CASE kind = "fresh" -> JsonFile(GoodPayload(IsoDate(d)), StartNow)
      [] kind = "stale" -> JsonFile(GoodPayload(IsoDate(d)), StartNow - cache_duration_hours)
      [] kind = "empty" -> JsonFile(NoPayload, StartNow)
      [] OTHER -> CorruptFile(StartNow)

InitCaches ==
    UNION {{[k \in Keys |-> IF k \in S THEN InitFile(k, f[k]) ELSE NoFile] :
               f \in [S -> {"fresh", "stale", "empty", "corrupt"}]} :
           S \in {X \in SUBSET {d \in DatesOfInterest : d <= StartDay} :
                     Cardinality(X) <= MaxInitFiles}}

\* no function without state is under examination
NoCall == [fn |-> "none", arg |-> <<>>]
NoReturn == [returned |-> FALSE, raised |-> FALSE, value |-> <<>>]

\* None where a time is expected
NoStamp == -1

Snapshot(doc) == [none |-> ~Truthy(doc), doc |-> doc, cache_timestamp |-> NoStamp]

NoDailyEntry == Snapshot(NoPayload)

\* DataHandler.__init__: nothing processed, nothing cached in memory
DataHandlerInit ==
    /\ processed_data = <<>>
    /\ last_update = NoStamp
    /\ daily_cache = [k \in Keys |-> NoDailyEntry]

\* the threads a load_chart call can come from: the window's own, and
\* the QThread the loader was moved to
Callers == {"main", "chart_loader_thread"}

\* MainWindow.__init__ (lines 105-119) and ChartLoader.__init__
WindowInit ==
    /\ is_loading = FALSE
    /\ refresh_calls = <<>>
    /\ chart_loader = [_is_running |-> FALSE]
    /\ chart_loads = [c \in Callers |-> "none"]

ProgramInit(configs, caches, responses) ==
    /\ DataHandlerInit
    /\ WindowInit
    /\ provider = responses
    /\ now = StartNow
    /\ ticks = 0
    /\ config \in configs
    /\ cache \in caches
    /\ cpc = "idle"
    /\ creq = NoDate
    /\ cattempt = 0
    /\ cresult = NoPayload
    /\ clog = EmptyLog
    /\ wpc = "none"
    /\ wdates = <<>>
    /\ wi = 0
    /\ wattempt = 0
    /\ wrunning = FALSE
    /\ wstopped = FALSE
    /\ wresult = <<>>
    /\ wlog = EmptyWorkerLog
    /\ fetches = 0

\* no worker has been handed to the thread pool
NoJobs ==
    /\ workers = <<>>
    /\ current_worker = 0

InitWith(configs, caches, responses) ==
    /\ ProgramInit(configs, caches, responses)
    /\ pcall = NoCall
    /\ pret = NoReturn
    /\ NoJobs

Init == InitWith(Configs, InitCaches, "any")

\* caching switched on, as main.py's default configuration has it
CachingConfigs == {c \in Configs : c.cache_enabled}

EmptyCache == [k \in Keys |-> NoFile]

InitMixed == InitWith(CachingConfigs, {EmptyCache}, "few")

(***************************************************************************)
(* The clock.  A call that has returned, and a worker that has finished,   *)
(* are observed before anything else happens.                              *)
(***************************************************************************)
Tick ==
    /\ ticks < MaxTicks
    /\ cpc # "done"
    /\ wpc # "finished"
    /\ now' = now + TickHours
    /\ ticks' = ticks + 1
    /\ UNCHANGED <<config, provider, uvars, hvars, jvars, pvars, cache, fetches, cvars, wvars>>

(***************************************************************************)
(* CBRApiClient.get_rates, up to the retry loop (lines 433-460).           *)
(***************************************************************************)
FallbackReturn(log) ==
    LET found == _get_last_available_cached_data(cache, now)
    IN  /\ cresult' = found.data
        /\ clog' = [log EXCEPT !.fallbacks = @ + 1, !.served = found.date]
        /\ cpc' = "done"

GetRates(target) ==
    /\ cpc = "idle"
    /\ LET target_date == IF target = NoDate THEN Today ELSE target
           cached_data == _load_from_cache(cache, target_date, now)
           warm == HoldsFresh(cache, target_date, now)
           log == [EmptyLog EXCEPT !.warm = warm,
                                   !.file = FileState(cache, target_date, now),
                                   !.held = IF warm THEN cache[target_date].data
                                            ELSE NoPayload]
       IN  /\ creq' = target_date
           /\ cattempt' = 0
           /\ IF target_date > Today
              THEN FallbackReturn(log)
              ELSE IF Truthy(cached_data)
              THEN /\ cresult' = cached_data
                   /\ clog' = [log EXCEPT !.last = "hit", !.served = target_date]
                   /\ cpc' = "done"
              ELSE IF _build_url_for_date(target_date, now) = ""
              THEN FallbackReturn(log)
              ELSE /\ cresult' = NoPayload
                   /\ clog' = log
                   /\ cpc' = "loop"
           /\ fetches' = IF cpc' = "loop" THEN fetches + 1 ELSE fetches
           /\ cpc' = "loop" => fetches < MaxFetches
    /\ UNCHANGED <<now, ticks, config, provider, uvars, hvars, jvars, pvars, cache, wvars>>

(***************************************************************************)
(* One pass of the retry loop of get_rates (lines 462-516): the request,   *)
(* the handling of its response and the decision to sleep.                 *)
(***************************************************************************)
Attempt(resp, disk) ==
    /\ cpc = "loop"
    /\ LoopContinues(cattempt)
    /\ LET h == Handling(resp)
           log == [clog EXCEPT !.requests = @ + 1, !.last = resp.kind,
                               !.fetched = resp.data]
       IN  CASE h = "ok" ->
                  LET data_date == _get_cache_date_from_data(resp.data, now)
                      saved == _save_to_cache(cache, resp.data, data_date.date, now, disk)
                  IN  IF data_date.raised
                      THEN /\ FallbackReturn(log)
                           /\ UNCHANGED <<cache, cattempt>>
                      ELSE IF saved.raised
                      THEN /\ FallbackReturn([log EXCEPT !.writes = @ \o saved.writes])
                           /\ cache' = saved.cache
                           /\ UNCHANGED cattempt
                      ELSE /\ cache' = saved.cache
                           /\ clog' = [log EXCEPT !.writes = @ \o saved.writes]
                           /\ cresult' = resp.data
                           /\ cpc' = "done"
                           /\ UNCHANGED cattempt
             [] h = "return_none" ->
                  /\ cresult' = NoPayload
                  /\ clog' = log
                  /\ cpc' = "done"
                  /\ UNCHANGED <<cache, cattempt>>
             [] h = "retry" ->
                  /\ IF SleepsAfter(cattempt)
                     THEN /\ clog' = [log EXCEPT !.sleeps = Append(@, Backoff(cattempt))]
                          /\ cpc' = "sleep"
                          /\ UNCHANGED cattempt
                     ELSE /\ clog' = log
                          /\ cpc' = "loop"
                          /\ cattempt' = cattempt + 1
                  /\ UNCHANGED <<cache, cresult>>
             [] h = "escape" ->
                  /\ cpc' = "raised"
                  /\ clog' = log
                  /\ UNCHANGED <<cache, cresult, cattempt>>
             [] OTHER ->
                  /\ FallbackReturn(log)
                  /\ UNCHANGED <<cache, cattempt>>
    /\ UNCHANGED <<now, ticks, config, provider, uvars, hvars, jvars, pvars, fetches, creq, wvars>>

\* time.sleep(delay) returns and the loop goes on to the next attempt
Wake ==
    /\ cpc = "sleep"
    /\ cpc' = "loop"
    /\ cattempt' = cattempt + 1
    /\ UNCHANGED <<now, ticks, config, provider, uvars, hvars, jvars, pvars, fetches, cache, creq,
                   cresult, clog, wvars>>

\* range(max_retries) is exhausted (lines 518-520)
Exhausted ==
    /\ cpc = "loop"
    /\ ~LoopContinues(cattempt)
    /\ FallbackReturn(clog)
    /\ UNCHANGED <<now, ticks, config, provider, uvars, hvars, jvars, pvars, fetches, cache, creq,
                   cattempt, wvars>>

\* the caller has the return value
Return ==
    /\ cpc = "done"
    /\ cpc' = "idle"
    /\ creq' = NoDate
    /\ cattempt' = 0
    /\ cresult' = NoPayload
    /\ clog' = EmptyLog
    /\ UNCHANGED <<now, ticks, config, provider, uvars, hvars, jvars, pvars, fetches, cache, wvars>>


(***************************************************************************)
(* AsyncApiWorker                                                          *)
(***************************************************************************)
\* AsyncApiWorker._validate_data
W_validate_data(data) ==
    IF data.Date.k = "absent" \/ ~data.PreviousDate \/ ~data.Valute.present
    THEN FALSE
    ELSE IF data.Valute.entries = <<>>
    THEN FALSE
    ELSE TRUE

\* a lookup that falls back on the file of the day before
W_load_from_cache_fallback(c, target_date, t) ==
    IF target_date > DateOf(t) \/ target_date = 0
    THEN NoPayload
    ELSE IF c[target_date].kind = "json" /\ t - c[target_date].mtime < cache_duration_hours
    THEN c[target_date].data
    ELSE c[target_date - 1].data

\* AsyncApiWorker._load_from_cache
W_load_from_cache(c, target_date, t) ==
    IF ~config.cache_enabled
    THEN NoPayload
    ELSE IF target_date > DateOf(t)
    THEN NoPayload
    ELSE IF c[target_date].kind = "none"
    THEN NoPayload
    ELSE IF FileDate(CacheFilename(target_date)) > DateOf(t)
    THEN NoPayload
    ELSE IF (t - c[target_date].mtime) * 3600 < cache_duration_hours * 3600
    THEN IF c[target_date].kind = "json"
         THEN c[target_date].data
         ELSE NoPayload
    ELSE NoPayload

\* AsyncApiWorker._save_to_cache
W_save_to_cache(c, data, target_date, t, disk) ==
    IF ~config.cache_enabled
    THEN [cache |-> c, writes |-> <<>>, raised |-> FALSE]
    ELSE IF target_date > DateOf(t)
    THEN [cache |-> c, writes |-> <<>>, raised |-> FALSE]
    ELSE WriteFile(c, data, target_date, t, disk)

\* the except clauses of AsyncApiWorker._fetch_from_api, in their order
W_Handling(resp) ==
    CASE resp.kind = "json" -> IF W_validate_data(resp.data) THEN "ok" ELSE "return_none"
      [] resp.kind = "http404" -> "return_none"
      [] resp.kind \in {"http500", "ConnectionError", "Timeout", "RequestException"} -> "retry"
      [] OTHER -> "return_none"

\* result_data[target_date.strftime('%Y-%m-%d')] = data
DictSet(dict, key, value) ==
    [k \in DOMAIN dict \cup {key} |-> IF k = key THEN value ELSE dict[k]]

EmptyDict == [k \in {} |-> NoPayload]

\* the date lists of a job: a past date, today and a future date
WorkerDates == {StartDay - LOOKBACK_RANGE + 1, StartDay, StartDay + 1}
JobDates == UNION {[1..n -> WorkerDates] : n \in 0..MaxJobDates}

\* the responses a job meets: the worker never looks into Date or the entries
WorkerResponses ==
    {[kind |-> "json", data |-> p] :
        p \in {GoodPayload(IsoDate(StartDay)), GoodPayload(IsoDate(StartDay + 1)),
               MkPayload(IsoDate(StartDay), TRUE, TRUE, <<PartEntry>>),
               MkPayload(IsoDate(StartDay), TRUE, FALSE, <<>>)}}
        \cup {[kind |-> k, data |-> NoPayload] : k \in ErrorKinds}

WorkerResponsesOf(p) == IF p = "few" THEN FewResponses ELSE WorkerResponses

\* AsyncApiWorker.__init__: a new worker, not yet running
Construct(dates) ==
    /\ wpc = "none"
    /\ wpc' = "queued"
    /\ wdates' = dates
    /\ wi' = 0
    /\ wattempt' = 0
    /\ wrunning' = FALSE
    /\ wstopped' = FALSE
    /\ wresult' = EmptyDict
    /\ wlog' = EmptyWorkerLog
    /\ UNCHANGED <<now, ticks, config, provider, uvars, hvars, jvars, pvars, fetches, cache, cvars>>

\* the dates get_rates_async passes on, unfiltered
get_rates_async_unfiltered(dates, t) == dates

\* valid_dates of CBRApiClient.get_rates_async
get_rates_async(dates, t) == SelectSeq(dates, LAMBDA d : d <= DateOf(t))

\* CBRApiClient.get_rates_async: a worker for the dates that are not in the
\* future (a previous worker is stopped by Stop)
GetRatesAsync(dates) ==
    /\ wpc = "none"
    /\ wpc' = "queued"
    /\ wdates' = get_rates_async(dates, now)
    /\ wi' = 0
    /\ wattempt' = 0
    /\ wrunning' = FALSE
    /\ wstopped' = FALSE
    /\ wresult' = EmptyDict
    /\ wlog' = [EmptyWorkerLog EXCEPT !.via = "async"]
    /\ UNCHANGED <<now, ticks, config, provider, uvars, hvars, jvars, pvars, fetches, cache, cvars>>

\* AsyncApiWorker.run starts (line 59)
Run ==
    /\ wpc = "queued"
    /\ wpc' = "next"
    /\ wrunning' = TRUE
    /\ UNCHANGED <<now, ticks, config, provider, uvars, hvars, jvars, pvars, fetches, cache, cvars,
                   wdates, wi, wattempt, wstopped, wresult, wlog>>

\* AsyncApiWorker.stop
Stop ==
    /\ wpc \in {"queued", "next", "fetch", "sleep"}
    /\ ~wstopped
    /\ wrunning' = FALSE
    /\ wstopped' = TRUE
    /\ UNCHANGED <<now, ticks, config, provider, uvars, hvars, jvars, pvars, fetches, cache, cvars, wpc,
                   wdates, wi, wattempt, wresult, wlog>>

(***************************************************************************)
(* One iteration of run's loop up to the request (lines 64-78 and          *)
(* 151-180): the running check, the cache lookup and the future-date       *)
(* check of _fetch_from_api.                                               *)
(***************************************************************************)
Iterate ==
    /\ wpc = "next"
    /\ IF wi >= Len(wdates) \/ ~wrunning
       THEN /\ wpc' = "emit"
            /\ UNCHANGED <<wi, wresult, wattempt, wlog, fetches>>
       ELSE LET target_date == wdates[wi + 1]
                cached_data == W_load_from_cache(cache, target_date, now)
            IN  IF Truthy(cached_data)
                THEN /\ wresult' = DictSet(wresult, target_date, cached_data)
                     /\ wi' = wi + 1
                     /\ UNCHANGED <<wpc, wattempt, wlog, fetches>>
                ELSE IF target_date > Today
                THEN /\ wi' = wi + 1
                     /\ wlog' = [wlog EXCEPT !.requests = 0, !.sleeps = <<>>]
                     /\ UNCHANGED <<wpc, wresult, wattempt, fetches>>
                ELSE /\ fetches < MaxFetches
                     /\ fetches' = fetches + 1
                     /\ wpc' = "fetch"
                     /\ wattempt' = 0
                     /\ wlog' = [wlog EXCEPT !.requests = 0, !.sleeps = <<>>]
                     /\ UNCHANGED <<wi, wresult>>
    /\ UNCHANGED <<now, ticks, config, provider, uvars, hvars, jvars, pvars, cache, cvars, wdates, wrunning, wstopped>>

(***************************************************************************)
(* One pass of the retry loop of _fetch_from_api (lines 181-222), and on   *)
(* its return the rest of run's iteration (lines 79-81).                   *)
(***************************************************************************)
W_Attempt(resp, disk) ==
    /\ wpc = "fetch"
    /\ W_LoopContinues(wattempt)
    /\ IF ~wrunning
       THEN /\ wpc' = "next"
            /\ wi' = wi + 1
            /\ UNCHANGED <<cache, wresult, wattempt, wlog>>
       ELSE LET h == W_Handling(resp)
                target_date == wdates[wi + 1]
                log == [wlog EXCEPT !.requests = @ + 1,
                                    !.asked = @ \cup {target_date}]
                saved == W_save_to_cache(cache, resp.data, target_date, now, disk)
            IN  CASE h = "ok" /\ saved.raised ->
                       /\ wresult' = EmptyDict
                       /\ cache' = saved.cache
                       /\ wlog' = [log EXCEPT !.writes = @ \o saved.writes]
                       /\ wpc' = "emit"
                       /\ UNCHANGED <<wi, wattempt>>
                  [] h = "ok" ->
                       /\ wresult' = DictSet(wresult, target_date, resp.data)
                       /\ cache' = saved.cache
                       /\ wlog' = [log EXCEPT !.writes = @ \o saved.writes]
                       /\ wpc' = "next"
                       /\ wi' = wi + 1
                       /\ UNCHANGED wattempt
                  [] h = "retry" ->
                       /\ IF wattempt < config.max_retries - 1 /\ wrunning
                          THEN /\ wlog' = [log EXCEPT !.sleeps = Append(@, Backoff(wattempt))]
                               /\ wpc' = "sleep"
                               /\ UNCHANGED wattempt
                          ELSE /\ wlog' = log
                               /\ wattempt' = wattempt + 1
                               /\ UNCHANGED wpc
                       /\ UNCHANGED <<cache, wresult, wi>>
                  [] OTHER ->
                       /\ wlog' = log
                       /\ wpc' = "next"
                       /\ wi' = wi + 1
                       /\ UNCHANGED <<cache, wresult, wattempt>>
    /\ UNCHANGED <<now, ticks, config, provider, uvars, hvars, jvars, pvars, fetches, cvars, wdates,
                   wrunning, wstopped>>

W_Wake ==
    /\ wpc = "sleep"
    /\ wpc' = "fetch"
    /\ wattempt' = wattempt + 1
    /\ UNCHANGED <<now, ticks, config, provider, uvars, hvars, jvars, pvars, fetches, cache, cvars,
                   wdates, wi, wrunning, wstopped, wresult, wlog>>

\* range(max_retries) is exhausted: return None (line 224)
W_Exhausted ==
    /\ wpc = "fetch"
    /\ ~W_LoopContinues(wattempt)
    /\ wpc' = "next"
    /\ wi' = wi + 1
    /\ UNCHANGED <<now, ticks, config, provider, uvars, hvars, jvars, pvars, fetches, cache, cvars,
                   wdates, wattempt, wrunning, wstopped, wresult, wlog>>

\* the end of run (lines 83-93)
Finish ==
    /\ wpc = "emit"
    /\ wpc' = "finished"
    /\ wrunning' = FALSE
    /\ UNCHANGED <<now, ticks, config, provider, uvars, hvars, jvars, pvars, fetches, cache, cvars,
                   wdates, wi, wattempt, wstopped, wresult, wlog>>

\* the finished worker is dropped by the thread pool
Discard ==
    /\ wpc = "finished"
    /\ wpc' = "none"
    /\ wdates' = <<>>
    /\ wi' = 0
    /\ wattempt' = 0
    /\ wstopped' = FALSE
    /\ wresult' = <<>>
    /\ wlog' = EmptyWorkerLog
    /\ UNCHANGED <<now, ticks, config, provider, uvars, hvars, jvars, pvars, fetches, cache, cvars,
                   wrunning>>

ClientNext ==
    \/ \E target \in RequestDates \cup {NoDate} : GetRates(target)
    \/ \E resp \in ResponsesOf(provider) :
          \E disk \in DiskOutcomesFor(resp) : Attempt(resp, disk)
    \/ Wake
    \/ Exhausted
    \/ Return

WorkerNext ==
    \/ \E dates \in JobDates : Construct(dates)
    \/ \E dates \in JobDates : GetRatesAsync(dates)
    \/ Run
    \/ Stop
    \/ Iterate
    \/ \E resp \in WorkerResponsesOf(provider) :
          \E disk \in DiskOutcomesFor(resp) : W_Attempt(resp, disk)
    \/ W_Wake
    \/ W_Exhausted
    \/ Finish
    \/ Discard

\* get_rates calls and worker runs, one after the other
Next ==
    \/ Tick
    \/ (wpc = "none" /\ ClientNext)
    \/ (cpc = "idle" /\ WorkerNext)

Spec == InitMixed /\ [][Next]_vars

\* the synchronous resolver alone
SpecClient == Init /\ [][Tick \/ ClientNext]_vars

\* the steps of a get_rates call that do not wait for the caller: a request
\* that returns or fails, a sleep that ends, the loop that runs out
ClientStep ==
    \/ \E resp \in ResponsesOf(provider) :
          \E disk \in DiskOutcomesFor(resp) : Attempt(resp, disk)
    \/ Wake
    \/ Exhausted

\* the synchronous resolver on an empty cache directory, with every request
\* returning or failing
InitLive == InitWith(Configs, {EmptyCache}, "any")

SpecLive == InitLive /\ [][Tick \/ ClientNext]_vars /\ WF_vars(ClientStep)

\* the backoff of get_rates for every retry_delay, on an empty cache
BackoffConfigs ==
    [max_retries : 0..MaxBackoffRetries, retry_delay : 0..MaxDelayCfg,
     cache_enabled : {TRUE}]

InitBackoff == InitWith(BackoffConfigs, {EmptyCache}, "few")

SpecBackoff == InitBackoff /\ [][Tick \/ ClientNext]_vars

(***************************************************************************)
(* Functions without state, each applied once to an argument drawn from a  *)
(* set of inputs.                                                          *)
(***************************************************************************)
\* the entry {}
EmptyEntry == [FullEntry EXCEPT !.has = {}]
ZeroNominal == [FullEntry EXCEPT !.Nominal = 0]
NegativeNominal == [FullEntry EXCEPT !.Nominal = -1]
OneFieldMissing == {[FullEntry EXCEPT !.has = CurrencyFields \ {f}] : f \in CurrencyFields}

EntryShapes ==
    {FullEntry, EmptyEntry, ZeroNominal, NegativeNominal} \cup OneFieldMissing

\* currency maps of up to two entries, in document order
EntryLists ==
    {<<>>} \cup {<<e>> : e \in EntryShapes}
        \cup {<<e, f>> : e \in {FullEntry, PartEntry},
                         f \in {FullEntry, PartEntry, ZeroNominal}}

ValidatorInputs ==
    {MkPayload(d, prev, TRUE, es) :
        d \in {AbsentDate, IsoDate(StartDay)}, prev \in BOOLEAN, es \in EntryLists}
      \cup {MkPayload(d, prev, FALSE, <<>>) :
              d \in {AbsentDate, IsoDate(StartDay)}, prev \in BOOLEAN}

Returned(v) == [returned |-> TRUE, raised |-> FALSE, value |-> v]
Raised == [returned |-> TRUE, raised |-> TRUE, value |-> <<>>]

(***************************************************************************)
(* The arithmetic of data_handler.py and calculator.py.  A division raises *)
(* ZeroDivisionError on a zero divisor; a missing key raises KeyError.     *)
(* exc is the exception an expression raises, "none" if it raises none.    *)
(***************************************************************************)
Quot(a, b) == IF b > 0 THEN a \div b ELSE 0 - (a \div (0 - b))

Divide(a, b) ==
    IF b = 0
    THEN [exc |-> "ZeroDivisionError", value |-> 0]
    ELSE [exc |-> "none", value |-> Quot(a, b)]

NoEntry ==
    [char_code |-> 0, nominal |-> 0, value |-> 0, normalized_value |-> 0,
     previous |-> 0, abs_change |-> 0, percent_change |-> 0]

\* the try block of _parse_and_process for one currency (lines 79-107);
\* the char code of an entry is its place in the document
ProcessEntry(char_code, currency_info) ==
    IF ~({"Nominal", "Value", "Previous"} \subseteq currency_info.has)
    THEN [exc |-> "KeyError", entry |-> NoEntry]
    ELSE LET nominal == currency_info.Nominal
             current_normalized == Divide(currency_info.Value, nominal)
             previous_normalized == Divide(currency_info.Previous, nominal)
             absolute_change == current_normalized.value - previous_normalized.value
             percent_change ==
                 IF previous_normalized.value # 0
                 THEN Quot(absolute_change * 100, previous_normalized.value)
                 ELSE 0
         IN  IF current_normalized.exc # "none"
             THEN [exc |-> current_normalized.exc, entry |-> NoEntry]
             ELSE IF "Name" \notin currency_info.has
             THEN [exc |-> "KeyError", entry |-> NoEntry]
             ELSE [exc |-> "none",
                   entry |-> [char_code |-> char_code,
                              nominal |-> nominal,
                              value |-> currency_info.Value,
                              normalized_value |-> current_normalized.value,
                              previous |-> currency_info.Previous,
                              abs_change |-> absolute_change,
                              percent_change |-> percent_change]]

\* a handler that lets the division error through
ParseCaught_narrow == {"KeyError"}

\* except (KeyError, ZeroDivisionError), line 109
ParseCaught == {"KeyError", "ZeroDivisionError"}

RECURSIVE ParseFrom(_, _)
ParseFrom(entries, i) ==
    IF i > Len(entries)
    THEN [exc |-> "none", list |-> <<>>]
    ELSE LET r == ProcessEntry(i, entries[i])
         IN  IF r.exc = "none"
             THEN LET rest == ParseFrom(entries, i + 1)
                  IN  IF rest.exc # "none"
                      THEN rest
                      ELSE [exc |-> "none", list |-> <<r.entry>> \o rest.list]
             ELSE IF r.exc \in ParseCaught
             THEN ParseFrom(entries, i + 1)
             ELSE [exc |-> r.exc, list |-> <<>>]

\* DataHandler._parse_and_process, on the entries of raw_data['Valute']
_parse_and_process(entries) ==
    LET r == ParseFrom(entries, 1)
    IN  IF r.exc = "none" THEN Returned(r.list) ELSE Raised

\* except (TypeError, ValueError, ZeroDivisionError), calculator.py line 51
ChangesCaught == {"TypeError", "ValueError", "ZeroDivisionError"}

\* Calculator.calculate_changes
calculate_changes(current_rate, previous_rate, nominal) ==
    IF previous_rate = 0
    THEN Returned(<<0, 0>>)
    ELSE LET current_normalized == Divide(current_rate, nominal)
             previous_normalized == Divide(previous_rate, nominal)
             absolute_change == current_normalized.value - previous_normalized.value
             percent_change == Divide(absolute_change * 100, previous_normalized.value)
             exc == IF current_normalized.exc # "none" THEN current_normalized.exc
                    ELSE percent_change.exc
         IN  IF exc = "none"
             THEN Returned(<<absolute_change, percent_change.value>>)
             ELSE IF exc \in ChangesCaught
             THEN Returned(<<0, 0>>)
             ELSE Raised

\* DataHandler.get_currency_by_code on processed_data
get_currency_by_code(rows, char_code) ==
    LET hits == {i \in 1..Len(rows) : rows[i].char_code = char_code}
    IN  IF hits = {}
        THEN [found |-> FALSE, data |-> NoEntry]
        ELSE [found |-> TRUE, data |-> rows[CHOOSE i \in hits : \A j \in hits : i <= j]]

NoAmount == [none |-> TRUE, amount |-> 0]

\* DataHandler.calculate_currency_conversion; except Exception catches all
calculate_currency_conversion(rows, amount, from_currency, to_currency) ==
    LET from_data == get_currency_by_code(rows, from_currency)
        to_data == get_currency_by_code(rows, to_currency)
        from_normalized == Divide(from_data.data.value, from_data.data.nominal)
        to_normalized == Divide(to_data.data.value, to_data.data.nominal)
    IN  IF ~from_data.found \/ ~to_data.found
        THEN Returned(NoAmount)
        ELSE IF from_normalized.exc # "none" \/ to_normalized.exc # "none"
        THEN Returned(NoAmount)
        ELSE IF to_normalized.value = 0
        THEN Returned(NoAmount)
        ELSE Returned([none |-> FALSE,
                       amount |-> Quot(amount * from_normalized.value,
                                       to_normalized.value)])

NoChart == [none |-> TRUE, values |-> <<>>, normalized_values |-> <<>>]

\* the points of a chart, from the currency's entry of each day (lines
\* 196-204 and 295-303)
RECURSIVE ChartPoints(_, _)
ChartPoints(days, i) ==
    IF i > Len(days)
    THEN [exc |-> "none", values |-> <<>>, normalized_values |-> <<>>]
    ELSE LET valute_info == days[i]
             normalized_value == Divide(valute_info.Value, valute_info.Nominal)
             rest == ChartPoints(days, i + 1)
         IN  IF ~({"Value", "Nominal"} \subseteq valute_info.has)
             THEN [exc |-> "KeyError", values |-> <<>>, normalized_values |-> <<>>]
             ELSE IF normalized_value.exc # "none"
             THEN [exc |-> normalized_value.exc, values |-> <<>>,
                   normalized_values |-> <<>>]
             ELSE IF rest.exc # "none"
             THEN rest
             ELSE [exc |-> "none",
                   values |-> <<valute_info.Value>> \o rest.values,
                   normalized_values |->
                       <<normalized_value.value>> \o rest.normalized_values]

\* the chart of currency char_code; except Exception catches all
ChartData(rows, char_code, days) ==
    LET points == ChartPoints(days, 1)
    IN  IF ~get_currency_by_code(rows, char_code).found
        THEN Returned(NoChart)
        ELSE IF points.exc # "none"
        THEN Returned(NoChart)
        ELSE IF points.values = <<>>
        THEN Returned(NoChart)
        ELSE Returned([none |-> FALSE, values |-> points.values,
                       normalized_values |-> points.normalized_values])

\* DataHandler.get_historical_data_for_chart, days read through get_rates
get_historical_data_for_chart(rows, char_code, days) ==
    ChartData(rows, char_code, days)

\* DataHandler.process_async_data, days taken from the worker's result
process_async_data(rows, char_code, days) ==
    ChartData(rows, char_code, days)

TenNominal == [FullEntry EXCEPT !.Nominal = 10]

\* currency maps and day series for the arithmetic
RateLists ==
    LET E == {FullEntry, TenNominal, ZeroNominal, PartEntry}
    IN  {<<>>} \cup {<<e>> : e \in E} \cup {<<e, f>> : e \in E, f \in E}

ChangeInputs == {<<c, p, n>> : c \in {0, 9000}, p \in {0, 8000}, n \in {0, 1, 10}}

ConversionInputs ==
    {[entries |-> es, amount |-> 5, from_currency |-> f, to_currency |-> t] :
        es \in {l \in RateLists : Len(l) = 2}, f \in 1..2, t \in 1..2}

ChartInputs ==
    {[entries |-> es, char_code |-> 1, days |-> ds] :
        es \in {<<FullEntry>>, <<ZeroNominal>>}, ds \in RateLists}

(* DataHandler._get_cached_daily_data.  A snapshot in the hands of a       *)
(* caller is the document with the keys added to it since it was created: *)
(* cache_timestamp is the time stored under that key, or NoStamp.         *)
daily_cache_duration_hours == 1

\* the states of self.daily_cache[cache_key]: no entry, an entry of this
\* hour, an entry older than daily_cache_duration_hours
DailyEntries ==
    {NoDailyEntry}
        \cup {[none |-> FALSE, doc |-> GoodPayload(IsoDate(StartDay)), cache_timestamp |-> t] :
                 t \in {StartNow, StartNow - daily_cache_duration_hours}}

\* entry is daily_cache[cache_key], daily_data what get_rates returns
_get_cached_daily_data(entry, daily_data, cache_enabled, t) ==
    IF ~cache_enabled
    THEN [value |-> Snapshot(daily_data), entry |-> entry]
    ELSE IF ~entry.none /\ (t - entry.cache_timestamp) * 3600 < daily_cache_duration_hours * 3600
    THEN [value |-> entry, entry |-> entry]
    ELSE IF Truthy(daily_data)
    THEN LET stamped == [Snapshot(daily_data) EXCEPT !.cache_timestamp = t]
         IN  [value |-> stamped, entry |-> stamped]
    ELSE [value |-> Snapshot(NoPayload), entry |-> entry]

DailyInputs ==
    [entry : DailyEntries,
     daily_data : {NoPayload, GoodPayload(IsoDate(StartDay)), GoodPayload(IsoDate(StartDay - 1))},
     cache_enabled : BOOLEAN]

\* the longest period asked for
MaxDays == 3

\* date.weekday() of day d: 0 to 4 are Monday to Friday
weekday(d) == d % 7

\* the week the periods end in, Monday to Sunday
EndDates == (StartDay + 5)..(StartDay + 11)

(***************************************************************************)
(* The loop of DataHandler._get_business_dates (lines 254-261), from the   *)
(* state it is in before an iteration.                                     *)
(***************************************************************************)
RECURSIVE BusinessLoop(_, _, _, _)
BusinessLoop(date_list, current_date, end_date, days) ==
    IF ~(Len(date_list) < days /\ current_date > end_date - days * 2)
    THEN date_list
    ELSE LET appended == IF weekday(current_date) < 5
                         THEN Append(date_list, current_date)
                         ELSE date_list
             moved == current_date - 1
         IN  IF end_date - moved > days * 3
             THEN appended
             ELSE BusinessLoop(appended, moved, end_date, days)

\* DataHandler._get_business_dates
_get_business_dates(end_date, days) ==
    BusinessLoop(<<>>, end_date, end_date, days)

PureCalls ==
    {[fn |-> "_get_cached_daily_data", arg |-> a] : a \in DailyInputs} \cup
    {[fn |-> "_get_business_dates", arg |-> a] :
        a \in [end_date : EndDates, days : 1..MaxDays]} \cup
    {[fn |-> f, arg |-> p] :
        f \in {"_validate_data", "W_validate_data"}, p \in ValidatorInputs}
      \cup {[fn |-> "_parse_and_process", arg |-> es] : es \in RateLists}
      \cup {[fn |-> "calculate_changes", arg |-> a] : a \in ChangeInputs}
      \cup {[fn |-> "calculate_currency_conversion", arg |-> a] : a \in ConversionInputs}
      \cup {[fn |-> f, arg |-> a] :
              f \in {"get_historical_data_for_chart", "process_async_data"},
              a \in ChartInputs}

DefaultConfig ==
    [max_retries |-> MaxRetriesCfg, retry_delay |-> default_retry_delay,
     cache_enabled |-> TRUE]

InitPure ==
    /\ ProgramInit({DefaultConfig}, {EmptyCache}, "few")
    /\ pcall \in PureCalls
    /\ pret = NoReturn
    /\ NoJobs

\* self._validate_data(data) of CBRApiClient
Validate ==
    /\ pcall.fn = "_validate_data"
    /\ ~pret.returned
    /\ pret' = Returned(_validate_data(pcall.arg))
    /\ UNCHANGED <<now, ticks, config, cache, provider, uvars, hvars, jvars, fetches, cvars, wvars, pcall>>

\* self._validate_data(data) of AsyncApiWorker
W_Validate ==
    /\ pcall.fn = "W_validate_data"
    /\ ~pret.returned
    /\ pret' = Returned(W_validate_data(pcall.arg))
    /\ UNCHANGED <<now, ticks, config, cache, provider, uvars, hvars, jvars, fetches, cvars, wvars, pcall>>

\* self.processed_data = self._parse_and_process(raw_data, target_date)
ParseAndProcess ==
    /\ pcall.fn = "_parse_and_process"
    /\ ~pret.returned
    /\ pret' = _parse_and_process(pcall.arg)
    /\ UNCHANGED <<now, ticks, config, cache, provider, uvars, hvars, jvars, fetches, cvars, wvars, pcall>>

CalculateChanges ==
    /\ pcall.fn = "calculate_changes"
    /\ ~pret.returned
    /\ pret' = calculate_changes(pcall.arg[1], pcall.arg[2], pcall.arg[3])
    /\ UNCHANGED <<now, ticks, config, cache, provider, uvars, hvars, jvars, fetches, cvars, wvars, pcall>>

\* the handler's processed_data come from _parse_and_process (line 62)
CalculateCurrencyConversion ==
    /\ pcall.fn = "calculate_currency_conversion"
    /\ ~pret.returned
    /\ pret' = calculate_currency_conversion(
                   _parse_and_process(pcall.arg.entries).value, pcall.arg.amount,
                   pcall.arg.from_currency, pcall.arg.to_currency)
    /\ UNCHANGED <<now, ticks, config, cache, provider, uvars, hvars, jvars, fetches, cvars, wvars, pcall>>

GetHistoricalDataForChart ==
    /\ pcall.fn = "get_historical_data_for_chart"
    /\ ~pret.returned
    /\ pret' = get_historical_data_for_chart(
                   _parse_and_process(pcall.arg.entries).value,
                   pcall.arg.char_code, pcall.arg.days)
    /\ UNCHANGED <<now, ticks, config, cache, provider, uvars, hvars, jvars, fetches, cvars, wvars, pcall>>

ProcessAsyncData ==
    /\ pcall.fn = "process_async_data"
    /\ ~pret.returned
    /\ pret' = process_async_data(
                   _parse_and_process(pcall.arg.entries).value,
                   pcall.arg.char_code, pcall.arg.days)
    /\ UNCHANGED <<now, ticks, config, cache, provider, uvars, hvars, jvars, fetches, cvars, wvars, pcall>>

\* DataHandler._get_cached_daily_data(target_date), with get_rates returning
\* pcall.arg.daily_data, the document the cache file holds
GetCachedDailyData ==
    /\ pcall.fn = "_get_cached_daily_data"
    /\ ~pret.returned
    /\ pret' = Returned(_get_cached_daily_data(
                            pcall.arg.entry, pcall.arg.daily_data,
                            pcall.arg.cache_enabled, now).value)
    /\ UNCHANGED <<now, ticks, config, cache, provider, uvars, hvars, jvars, fetches, cvars, wvars, pcall>>

\* date_list = self._get_business_dates(end_date, days) (line 279)
GetBusinessDates ==
    /\ pcall.fn = "_get_business_dates"
    /\ ~pret.returned
    /\ pret' = Returned(_get_business_dates(pcall.arg.end_date, pcall.arg.days))
    /\ UNCHANGED <<now, ticks, config, cache, provider, uvars, hvars, jvars, fetches, cvars, wvars, pcall>>

PureNext ==
    \/ GetCachedDailyData
    \/ GetBusinessDates
    \/ Validate
    \/ W_Validate
    \/ ParseAndProcess
    \/ CalculateChanges
    \/ CalculateCurrencyConversion
    \/ GetHistoricalDataForChart
    \/ ProcessAsyncData

SpecPure == InitPure /\ [][PureNext]_vars

(***************************************************************************)
(* AsyncApiWorker objects running beside each other and beside the thread  *)
(* that calls get_rates_async and stop: every statement of run is a step   *)
(* of its own, so that stop() may fall between any two of them.            *)
(***************************************************************************)
max_concurrent_requests == 2
MaxJobLen == 2

Currencies == {"USD", "EUR"}

\* DataHandler._get_business_dates: the n dates up to the day of the call,
\* the latest first
BusinessDates(n) == [k \in 1..n |-> StartDay - (k - 1)]

\* the jobs asked for: with one worker, lists of up to MaxJobLen dates in
\* one currency; with several workers, lists of at most one date
JobListsFor(slots) ==
    IF slots = 1
    THEN {BusinessDates(n) : n \in 0..MaxJobLen}
    ELSE {BusinessDates(n) : n \in 0..1}

CurrenciesFor(slots) == IF slots = 1 THEN {"USD"} ELSE Currencies

\* what the provider may answer to a worker's request for date d
JobResponses(d) ==
    {[kind |-> "json", data |-> GoodPayload(IsoDate(d))],
     [kind |-> "json", data |-> MkPayload(IsoDate(d), TRUE, TRUE, <<>>)],
     [kind |-> "ConnectionError", data |-> NoPayload],
     [kind |-> "http404", data |-> NoPayload]}

(* A worker: its fields, its position in run (phase), the signals it has   *)
(* emitted, and what is known of the stop() calls on it: asked is where    *)
(* the worker stood when stop() was first called, stopidx the index of the *)
(* date it was then working on, stopper the currency of the                *)
(* get_rates_async call that stopped it, late the events after that stop,  *)
(* signals the names of the signals emitted so far, in order, failed the   *)
(* dates for which _fetch_from_api returned None.                          *)
NoWorker ==
    [phase |-> "none", currency_code |-> "", dates |-> <<>>, i |-> 0,
     attempt |-> 0, _is_running |-> FALSE, result_data |-> EmptyDict,
     progress |-> <<>>, data_ready |-> FALSE, error_occurred |-> FALSE,
     signals |-> <<>>, failed |-> {},
     asked |-> "no", stopidx |-> 0, stopper |-> "", late |-> {}]

\* AsyncApiWorker.__init__
NewWorker(currency_code, dates) ==
    [NoWorker EXCEPT !.phase = "queued", !.currency_code = currency_code,
                     !.dates = dates]

\* AsyncApiWorker.stop
stop(rec) == [rec EXCEPT !._is_running = FALSE]

\* the first statement of run
run_enter(rec) == [rec EXCEPT !._is_running = TRUE]

\* time.sleep(delay) of _fetch_from_api raises ValueError on a negative
\* delay; the call stands after the except clauses, so the error leaves
\* _fetch_from_api (lines 220-222)
SleepRaises(rec) ==
    /\ SleepsAfter(rec.attempt)
    /\ rec._is_running
    /\ Backoff(rec.attempt) < 0

\* the running test of run's except clause (lines 86-89)
run_except(rec) ==
    [rec EXCEPT !.phase = IF rec._is_running THEN "emit_error" ELSE "finally"]

\* a finally clause that emits nothing
run_finally_silent(rec) ==
    [rec EXCEPT !._is_running = FALSE, !.phase = "finished"]

\* the finally clause of run (lines 91-93)
run_finally(rec) ==
    [rec EXCEPT !.signals = Append(@, "finished"),
                !._is_running = FALSE, !.phase = "finished"]

\* the loop of run never breaks
LoopBreaks_never(rec) == FALSE

\* if not self._is_running: break
LoopBreaks(rec) == ~rec._is_running

StopPoint(rec) ==
    CASE rec.phase = "queued" -> "queued"
      [] rec.phase = "top" -> "head"
      [] rec.phase \in {"checked", "read", "fetch", "request"} -> "date"
      [] rec.phase \in {"after", "except"} -> "after"
      [] rec.phase \in {"emit", "emit_error"} -> "emit"
      [] OTHER -> "done"

\* stop() called on the worker, by get_rates_async for currency by, or by
\* stop_current_worker (by = "")
Stopped(rec, by) ==
    [stop(rec) EXCEPT !.asked = IF @ = "no" THEN StopPoint(rec) ELSE @,
                      !.stopidx = IF rec.asked = "no" THEN rec.i ELSE @,
                      !.stopper = IF @ = "" THEN by ELSE @]

Event(rec, kind) == [kind |-> kind, i |-> rec.i]

\* the worker's events since stop() was called on it
Late(rec, kind) ==
    IF rec.asked = "no" THEN rec.late ELSE rec.late \cup {Event(rec, kind)}

FreeSlots == {w \in DOMAIN workers : workers[w].phase = "none"}

JobFrame == UNCHANGED <<now, ticks, config, provider, uvars, hvars, fetches, cvars, wvars, pvars>>

\* CBRApiClient.get_rates_async: the previous worker is stopped, the new one
\* takes its place in current_worker and is handed to the thread pool
J_GetRatesAsync(currency_code, dates) ==
    /\ FreeSlots # {}
    /\ LET w == CHOOSE x \in FreeSlots : \A y \in FreeSlots : x <= y
           worker == NewWorker(currency_code, get_rates_async(dates, now))
       IN  /\ workers' = [x \in DOMAIN workers |->
                             IF x = w THEN worker
                             ELSE IF x = current_worker
                             THEN Stopped(workers[x], currency_code)
                             ELSE workers[x]]
           /\ current_worker' = w
    /\ UNCHANGED cache
    /\ JobFrame

\* CBRApiClient.stop_current_worker
J_StopCurrentWorker ==
    /\ current_worker # 0
    /\ workers[current_worker].asked = "no"
    /\ workers' = [workers EXCEPT ![current_worker] = Stopped(@, "")]
    /\ UNCHANGED <<current_worker, cache>>
    /\ JobFrame

\* the thread pool starts run (line 59)
J_Run(w) ==
    /\ workers[w].phase = "queued"
    /\ workers' = [workers EXCEPT ![w] = [run_enter(@) EXCEPT !.phase = "top"]]
    /\ UNCHANGED <<current_worker, cache>>
    /\ JobFrame

\* the head of run's loop and its running check (lines 64-66)
J_Check(w) ==
    /\ workers[w].phase = "top"
    /\ LET rec == workers[w]
       IN  workers' = [workers EXCEPT ![w].phase =
                          IF rec.i >= Len(rec.dates) THEN "after"
                          ELSE IF LoopBreaks(rec) THEN "after"
                          ELSE "checked"]
    /\ UNCHANGED <<current_worker, cache>>
    /\ JobFrame

\* progress_updated.emit(i + 1, total_dates, currency_code) (line 69)
J_Progress(w) ==
    /\ workers[w].phase = "checked"
    /\ LET rec == workers[w]
       IN  workers' = [workers EXCEPT ![w] =
                          [rec EXCEPT !.phase = "read",
                                      !.progress = Append(@, <<rec.i + 1, Len(rec.dates)>>),
                                      !.signals = Append(@, "progress_updated"),
                                      !.late = Late(rec, "progress")]]
    /\ UNCHANGED <<current_worker, cache>>
    /\ JobFrame

\* the cache lookup of run (lines 72-75)
J_CacheRead(w) ==
    /\ workers[w].phase = "read"
    /\ LET rec == workers[w]
           target_date == rec.dates[rec.i + 1]
           cached_data == W_load_from_cache(cache, target_date, now)
           seen == [rec EXCEPT !.late = Late(rec, "read")]
       IN  workers' = [workers EXCEPT ![w] =
                          IF Truthy(cached_data)
                          THEN [seen EXCEPT !.result_data = DictSet(@, target_date, cached_data),
                                            !.i = @ + 1, !.phase = "top"]
                          ELSE IF target_date > Today
                          THEN [seen EXCEPT !.i = @ + 1, !.phase = "top"]
                          ELSE [seen EXCEPT !.attempt = 0, !.phase = "fetch"]]
    /\ UNCHANGED <<current_worker, cache>>
    /\ JobFrame

\* the head of _fetch_from_api's loop and its running check (lines 181-184);
\* past it, the request is on its way
J_AttemptCheck(w) ==
    /\ workers[w].phase = "fetch"
    /\ LET rec == workers[w]
       IN  workers' = [workers EXCEPT ![w] =
                          IF ~W_LoopContinues(rec.attempt) \/ ~rec._is_running
                          THEN [rec EXCEPT !.i = @ + 1, !.phase = "top",
                                           !.failed = @ \cup {rec.dates[rec.i + 1]}]
                          ELSE [rec EXCEPT !.phase = "request",
                                           !.late = Late(rec, "request")]]
    /\ UNCHANGED <<current_worker, cache>>
    /\ JobFrame

\* the request returns or fails (lines 188-222), and on a payload run
\* stores and saves it (lines 79-81)
J_Response(w, resp) ==
    /\ workers[w].phase = "request"
    /\ LET rec == workers[w]
           target_date == rec.dates[rec.i + 1]
           h == W_Handling(resp)
           saved == W_save_to_cache(cache, resp.data, target_date, now, "ok")
       IN  /\ resp \in JobResponses(target_date)
           /\ CASE h = "ok" ->
                     /\ workers' = [workers EXCEPT ![w] =
                            [rec EXCEPT !.result_data = DictSet(@, target_date, resp.data),
                                        !.late = IF saved.writes = <<>> THEN @
                                                 ELSE Late(rec, "write"),
                                        !.i = @ + 1, !.phase = "top"]]
                     /\ cache' = saved.cache
                [] h = "retry" ->
                     /\ workers' = [workers EXCEPT ![w] =
                            IF SleepRaises(rec)
                            THEN [rec EXCEPT !.phase = "except"]
                            ELSE [rec EXCEPT !.attempt = @ + 1, !.phase = "fetch"]]
                     /\ UNCHANGED cache
                [] OTHER ->
                     /\ workers' = [workers EXCEPT ![w] =
                            [rec EXCEPT !.i = @ + 1, !.phase = "top",
                                        !.failed = @ \cup {target_date}]]
                     /\ UNCHANGED cache
    /\ UNCHANGED current_worker
    /\ JobFrame

\* if self._is_running: (line 83)
J_AfterLoop(w) ==
    /\ workers[w].phase = "after"
    /\ workers' = [workers EXCEPT ![w].phase =
                      IF workers[w]._is_running THEN "emit" ELSE "finally"]
    /\ UNCHANGED <<current_worker, cache>>
    /\ JobFrame

\* data_ready.emit(result_data, currency_code) (line 84)
J_EmitDataReady(w) ==
    /\ workers[w].phase = "emit"
    /\ LET rec == workers[w]
       IN  workers' = [workers EXCEPT ![w] =
                          [rec EXCEPT !.data_ready = TRUE, !.phase = "finally",
                                      !.signals = Append(@, "data_ready"),
                                      !.late = Late(rec, "data_ready")]]
    /\ UNCHANGED <<current_worker, cache>>
    /\ JobFrame

\* an exception reaches the except clause of run (lines 86-89)
J_Except(w) ==
    /\ workers[w].phase = "except"
    /\ workers' = [workers EXCEPT ![w] = run_except(@)]
    /\ UNCHANGED <<current_worker, cache>>
    /\ JobFrame

\* error_occurred.emit(error_msg, currency_code) (line 90)
J_EmitError(w) ==
    /\ workers[w].phase = "emit_error"
    /\ LET rec == workers[w]
       IN  workers' = [workers EXCEPT ![w] =
                          [rec EXCEPT !.error_occurred = TRUE, !.phase = "finally",
                                      !.signals = Append(@, "error_occurred"),
                                      !.late = Late(rec, "error_occurred")]]
    /\ UNCHANGED <<current_worker, cache>>
    /\ JobFrame

\* the finally clause of run (lines 91-93)
J_Finally(w) ==
    /\ workers[w].phase = "finally"
    /\ workers' = [workers EXCEPT ![w] = run_finally(@)]
    /\ UNCHANGED <<current_worker, cache>>
    /\ JobFrame

JobsNext ==
    \/ \E currency_code \in CurrenciesFor(Len(workers)) :
          \E dates \in JobListsFor(Len(workers)) :
              J_GetRatesAsync(currency_code, dates)
    \/ J_StopCurrentWorker
    \/ \E w \in DOMAIN workers :
          \/ J_Run(w)
          \/ J_Check(w)
          \/ J_Progress(w)
          \/ J_CacheRead(w)
          \/ J_AttemptCheck(w)
          \/ \E d \in Keys : \E resp \in JobResponses(d) : J_Response(w, resp)
          \/ J_AfterLoop(w)
          \/ J_EmitDataReady(w)
          \/ J_Except(w)
          \/ J_EmitError(w)
          \/ J_Finally(w)

\* the configuration file sets retry_delay unchecked: the default, or a
\* negative number
JobConfigs ==
    {DefaultConfig, [DefaultConfig EXCEPT !.retry_delay = -default_retry_delay]}

\* the cache directory a bulk job finds: empty, or one file of an earlier
\* day, fresh or stale
BulkCaches ==
    {EmptyCache} \cup
        {[EmptyCache EXCEPT ![d] = InitFile(d, kind)] :
            d \in {StartDay - 1, StartDay - 2}, kind \in {"fresh", "stale"}}

JobCaches(slots) == IF slots = 1 THEN BulkCaches ELSE {EmptyCache}

InitJobs(slots) ==
    /\ ProgramInit(JobConfigs, JobCaches(slots), "few")
    /\ pcall = NoCall
    /\ pret = NoReturn
    /\ workers = [w \in 1..slots |-> NoWorker]
    /\ current_worker = 0

\* one bulk job, stopped at any point
SpecJob == InitJobs(1) /\ [][JobsNext]_vars

\* as many workers as the thread pool runs at a time
SpecPool == InitJobs(max_concurrent_requests) /\ [][JobsNext]_vars

(***************************************************************************)
(* Pruning of the cache directory: cleanup_old_cache, which __init__       *)
(* calls, and clear_old_cache.  The directory is examined before a client  *)
(* is constructed, so it may hold files of any date; a file's time (mtime, *)
(* and with it getctime) is that of its last write.                        *)
(***************************************************************************)
cleanup_max_age_days == 30
default_days_to_keep == 30
MaxKeepDays == 2
MaxPruneTicks == 1

PruneKeys ==
    {StartDay - cleanup_max_age_days - 1, StartDay - cleanup_max_age_days,
     StartDay - 2, StartDay, StartDay + 1}

\* the file of date d: absent, written on its own day, or written today
PruneFiles(d) ==
    {NoFile, JsonFile(GoodPayload(IsoDate(d)), StartNow)}
        \cup (IF d < StartDay
              THEN {JsonFile(GoodPayload(IsoDate(d)), d * 24 + TickHours)}
              ELSE {})

PruneCaches == {c \in [PruneKeys -> UNION {PruneFiles(d) : d \in PruneKeys}] :
                   \A d \in PruneKeys : c[d] \in PruneFiles(d)}

KeepDays == 0..MaxKeepDays \cup {default_days_to_keep}

\* the files whose os.remove fails: none, or the oldest one
Failing == {{}, {StartDay - cleanup_max_age_days - 1}}

\* timedelta.days of a difference of h hours
Days(h) == h \div 24

\* CBRApiClient.cleanup_old_cache: files of a future date and files of a
\* date more than 30 days back are removed
cleanup_old_cache(c, t, failing) ==
    [d \in DOMAIN c |->
        IF /\ c[d].kind # "none"
           /\ (d > DateOf(t) \/ DateOf(t) - d > cleanup_max_age_days)
           /\ d \notin failing
        THEN NoFile
        ELSE c[d]]

\* the files clear_old_cache removes: those whose time is more than
\* days_to_keep days back
Removed(c, t, days_to_keep, failing) ==
    {d \in DOMAIN c : /\ c[d].kind # "none"
                      /\ Days(t - c[d].mtime) > days_to_keep
                      /\ d \notin failing}

\* CBRApiClient.clear_old_cache: the directory it leaves, its count of
\* deleted files, which it logs, and its return value, which is None
clear_old_cache(c, t, days_to_keep, failing) ==
    [cache |-> [d \in DOMAIN c |->
                   IF d \in Removed(c, t, days_to_keep, failing) THEN NoFile ELSE c[d]],
     deleted_count |-> Cardinality(Removed(c, t, days_to_keep, failing)),
     value |-> [none |-> TRUE, n |-> 0]]

PruneFrame == UNCHANGED <<ticks, config, provider, uvars, hvars, fetches, cvars, wvars, jvars>>

\* CBRApiClient.__init__ (line 268)
P_Construct(failing) ==
    /\ pcall.fn # "__init__"
    /\ cache' = cleanup_old_cache(cache, now, failing)
    /\ pcall' = [fn |-> "__init__", arg |-> [before |-> cache, failing |-> failing]]
    /\ pret' = Returned([none |-> TRUE, n |-> 0])
    /\ UNCHANGED now
    /\ PruneFrame

P_ClearOldCache(days_to_keep, failing) ==
    /\ LET done == clear_old_cache(cache, now, days_to_keep, failing)
       IN  /\ cache' = done.cache
           /\ pcall' = [fn |-> "clear_old_cache",
                        arg |-> [before |-> cache, failing |-> failing,
                                 at |-> now, days_to_keep |-> days_to_keep,
                                 deleted_count |-> done.deleted_count]]
           /\ pret' = Returned(done.value)
    /\ UNCHANGED now
    /\ PruneFrame

\* a payload for date d, today or earlier, is written to the directory
P_Save(d) ==
    /\ d <= DateOf(now)
    /\ cache' = DiskEffect(cache, GoodPayload(IsoDate(d)), d, now, "ok")
    /\ pcall' = [fn |-> "_save_to_cache", arg |-> [before |-> cache, failing |-> {}]]
    /\ pret' = Returned([none |-> TRUE, n |-> 0])
    /\ UNCHANGED now
    /\ PruneFrame

\* a day passes
P_Tick ==
    /\ ticks < MaxPruneTicks
    /\ now' = now + 24
    /\ ticks' = ticks + 1
    /\ UNCHANGED <<config, cache, provider, uvars, hvars, fetches, cvars, wvars, pvars, jvars>>

PruneNext ==
    \/ \E failing \in Failing : P_Construct(failing)
    \/ \E days_to_keep \in KeepDays : \E failing \in Failing :
          P_ClearOldCache(days_to_keep, failing)
    \/ \E d \in PruneKeys : P_Save(d)
    \/ P_Tick

InitPrune ==
    /\ ProgramInit({DefaultConfig}, PruneCaches, "few")
    /\ pcall = NoCall
    /\ pret = NoReturn
    /\ NoJobs

SpecPrune == InitPrune /\ [][PruneNext]_vars

(***************************************************************************)
(* DataHandler over the resolver.  A call of fetch_and_process_data or of  *)
(* _get_cached_daily_data is pcall; while it waits for get_rates the call  *)
(* of the resolver runs through its own steps.  pcall.arg keeps what the   *)
(* handler held when the call began; shadow tells that the in-memory layer *)
(* answered and get_rates was not called.                                  *)
(***************************************************************************)
HandlerDates == {StartDay - 1, StartDay}

\* the cache directory the handler's client finds: empty, or one fresh file
HandlerCaches ==
    {EmptyCache} \cup
        {[EmptyCache EXCEPT ![d] = InitFile(d, "fresh")] : d \in HandlerDates}

\* None, or a list of rows
NoRows == [none |-> TRUE, rows |-> <<>>]
Rows(rows) == [none |-> FALSE, rows |-> rows]

\* 'date': actual_date.isoformat() in every row (lines 75 and 105)
StampDate(rows, target_date, t) ==
    LET actual_date == IF target_date = NoDate THEN DateOf(t) ELSE target_date
    IN  [k \in DOMAIN rows |-> [row |-> rows[k], date |-> actual_date]]

\* a layer that never expires
ShadowFresh_forever(t) == last_update # NoStamp /\ processed_data # <<>>

\* the test at the head of fetch_and_process_data (lines 46-49)
ShadowFresh(t) ==
    /\ last_update # NoStamp
    /\ (t - last_update) * 3600 < cache_duration_hours * 3600
    /\ processed_data # <<>>

\* the in-memory test of _get_cached_daily_data (lines 135-146)
DailyHit(entry, cache_enabled, t) ==
    /\ cache_enabled
    /\ ~entry.none
    /\ (t - entry.cache_timestamp) * 3600 < daily_cache_duration_hours * 3600

HandlerCall(fn, target_date, cache_enabled, shadow) ==
    [fn |-> fn,
     arg |-> [target_date |-> target_date, at |-> now, shadow |-> shadow,
              cache_enabled |-> cache_enabled,
              processed_data |-> processed_data, last_update |-> last_update]]

HandlerFns == {"fetch_and_process_data", "_get_cached_daily_data"}

\* fetch_and_process_data up to its call of get_rates (lines 40-55)
H_FetchAndProcessData(target_date) ==
    /\ pcall = NoCall
    /\ cpc = "idle"
    /\ pcall' = HandlerCall("fetch_and_process_data", target_date, TRUE,
                            ShadowFresh(now))
    /\ pret' = IF ShadowFresh(now) THEN Returned(Rows(processed_data))
               ELSE NoReturn
    /\ UNCHANGED <<now, ticks, config, cache, provider, uvars, hvars, jvars, fetches,
                   cvars, wvars>>

\* _get_cached_daily_data up to its call of get_rates (lines 130-149)
H_GetCachedDailyData(target_date, cache_enabled) ==
    /\ pcall = NoCall
    /\ cpc = "idle"
    /\ LET hit == DailyHit(daily_cache[target_date], cache_enabled, now)
       IN  /\ pcall' = HandlerCall("_get_cached_daily_data", target_date,
                                   cache_enabled, hit)
           /\ pret' = IF hit THEN Returned(daily_cache[target_date])
                      ELSE NoReturn
    /\ UNCHANGED <<now, ticks, config, cache, provider, uvars, hvars, jvars, fetches,
                   cvars, wvars>>

\* self.api_client.get_rates(target_date) (lines 55, 136 and 149)
H_GetRates ==
    /\ pcall.fn \in HandlerFns
    /\ ~pret.returned
    /\ GetRates(pcall.arg.target_date)

\* a failed load that still stamps last_update
fetch_and_process_data_stamping(raw_data, target_date, t) ==
    [ret |-> Returned(NoRows), processed_data |-> processed_data,
     last_update |-> t]

\* fetch_and_process_data from the return of get_rates on (lines 56-66):
\* what it returns and what it leaves in processed_data and last_update
fetch_and_process_data(raw_data, target_date, t) ==
    IF ~Truthy(raw_data)
    THEN [ret |-> Returned(NoRows), processed_data |-> processed_data,
          last_update |-> last_update]
    ELSE LET parsed == _parse_and_process(raw_data.Valute.entries)
             rows == StampDate(parsed.value, target_date, t)
         IN  IF parsed.raised
             THEN [ret |-> Raised, processed_data |-> processed_data,
                   last_update |-> last_update]
             ELSE [ret |-> Returned(Rows(rows)), processed_data |-> rows,
                   last_update |-> t]

\* get_rates has returned to fetch_and_process_data (lines 56-66) or to
\* _get_cached_daily_data (lines 136 and 150-157)
H_Resume ==
    /\ pcall.fn \in HandlerFns
    /\ ~pret.returned
    /\ cpc = "done"
    /\ IF pcall.fn = "fetch_and_process_data"
       THEN LET r == fetch_and_process_data(cresult, pcall.arg.target_date, now)
            IN  /\ pret' = r.ret
                /\ processed_data' = r.processed_data
                /\ last_update' = r.last_update
                /\ UNCHANGED daily_cache
       ELSE LET r == _get_cached_daily_data(daily_cache[pcall.arg.target_date],
                                            cresult, pcall.arg.cache_enabled, now)
            IN  /\ daily_cache' = [daily_cache EXCEPT ![pcall.arg.target_date] = r.entry]
                /\ pret' = Returned(r.value)
                /\ UNCHANGED <<processed_data, last_update>>
    /\ UNCHANGED <<now, ticks, config, cache, provider, uvars, jvars, fetches, cvars,
                   wvars, pcall>>

\* the handler's method returns to its caller
H_Return ==
    /\ pcall.fn \in HandlerFns
    /\ pret.returned
    /\ pcall' = NoCall
    /\ pret' = NoReturn
    /\ cpc' = "idle"
    /\ creq' = NoDate
    /\ cattempt' = 0
    /\ cresult' = NoPayload
    /\ clog' = EmptyLog
    /\ UNCHANGED <<now, ticks, config, cache, provider, uvars, hvars, jvars, fetches,
                   wvars>>

HandlerNext ==
    \/ Tick
    \/ \E target_date \in HandlerDates \cup {NoDate} :
          H_FetchAndProcessData(target_date)
    \/ \E target_date \in HandlerDates : \E cache_enabled \in BOOLEAN :
          H_GetCachedDailyData(target_date, cache_enabled)
    \/ H_GetRates
    \/ \E resp \in ResponsesOf(provider) :
          \E disk \in DiskOutcomesFor(resp) : Attempt(resp, disk)
    \/ Wake
    \/ Exhausted
    \/ H_Resume
    \/ H_Return

InitHandler == InitWith({DefaultConfig}, HandlerCaches, "few")

\* calls of the handler, one after the other
SpecHandler == InitHandler /\ [][HandlerNext]_vars

(***************************************************************************)
(* The window.  refresh_data runs in the window's thread; while it is in   *)
(* QApplication.processEvents() (line 377) the button, the menu or the     *)
(* timer can call it again.  load_chart is a method of an object that      *)
(* lives in its own QThread and is also called directly (line 494);        *)
(* stop() is called from closeEvent (line 642).                            *)
(***************************************************************************)
UIFrame ==
    UNCHANGED <<now, ticks, config, cache, provider, hvars, jvars, fetches,
                cvars, wvars, pvars>>

\* refresh_data is free to be called: nothing runs in the window's thread,
\* or the call that runs is in processEvents
WindowFree ==
    IF refresh_calls = <<>> THEN TRUE
    ELSE refresh_calls[Len(refresh_calls)] = "events"

\* refresh_data up to the head of its try block (lines 370-374); a call
\* that finds is_loading set returns at once and changes nothing
R_Call ==
    /\ WindowFree
    /\ ~is_loading
    /\ is_loading' = TRUE
    /\ refresh_calls' = Append(refresh_calls, "events")
    /\ UNCHANGED <<chart_loader, chart_loads>>
    /\ UIFrame

SetTop(stack, phase) == [stack EXCEPT ![Len(stack)] = phase]

\* processEvents returns (line 377)
R_EventsDone ==
    /\ refresh_calls # <<>>
    /\ refresh_calls[Len(refresh_calls)] = "events"
    /\ refresh_calls' = SetTop(refresh_calls, "fetch")
    /\ UNCHANGED <<is_loading, chart_loader, chart_loads>>
    /\ UIFrame

\* fetch_and_process_data returns rows or None, or something in the try
\* block raises and the except clause logs it (lines 380-398)
R_Fetch(outcome) ==
    /\ refresh_calls # <<>>
    /\ refresh_calls[Len(refresh_calls)] = "fetch"
    /\ refresh_calls' = SetTop(refresh_calls, outcome)
    /\ UNCHANGED <<is_loading, chart_loader, chart_loads>>
    /\ UIFrame

\* the finally clause of refresh_data (lines 400-401)
R_Finally ==
    /\ refresh_calls # <<>>
    /\ refresh_calls[Len(refresh_calls)] \in {"rows", "none", "raised"}
    /\ is_loading' = FALSE
    /\ refresh_calls' = SubSeq(refresh_calls, 1, Len(refresh_calls) - 1)
    /\ UNCHANGED <<chart_loader, chart_loads>>
    /\ UIFrame

\* load_chart up to the head of its try block (lines 36-39); a call that
\* finds _is_running set returns at once and changes nothing
L_Call(c) ==
    /\ chart_loads[c] = "none"
    /\ ~chart_loader._is_running
    /\ chart_loader' = [chart_loader EXCEPT !._is_running = TRUE]
    /\ chart_loads' = [chart_loads EXCEPT ![c] = "loading"]
    /\ UNCHANGED <<is_loading, refresh_calls>>
    /\ UIFrame

\* get_historical_data_for_chart returns or raises, and chart_loaded or
\* chart_error is emitted (lines 40-52)
L_Load(c, outcome) ==
    /\ chart_loads[c] = "loading"
    /\ chart_loads' = [chart_loads EXCEPT ![c] = outcome]
    /\ UNCHANGED <<is_loading, refresh_calls, chart_loader>>
    /\ UIFrame

\* the finally clause of load_chart (lines 52-53)
L_Finally(c) ==
    /\ chart_loads[c] \in {"chart_loaded", "chart_error"}
    /\ chart_loader' = [chart_loader EXCEPT !._is_running = FALSE]
    /\ chart_loads' = [chart_loads EXCEPT ![c] = "none"]
    /\ UNCHANGED <<is_loading, refresh_calls>>
    /\ UIFrame

\* ChartLoader.stop (lines 55-57)
L_Stop ==
    /\ chart_loader._is_running
    /\ chart_loader' = [chart_loader EXCEPT !._is_running = FALSE]
    /\ UNCHANGED <<is_loading, refresh_calls, chart_loads>>
    /\ UIFrame

UINext ==
    \/ R_Call
    \/ R_EventsDone
    \/ \E outcome \in {"rows", "none", "raised"} : R_Fetch(outcome)
    \/ R_Finally
    \/ \E c \in Callers :
          \/ L_Call(c)
          \/ \E outcome \in {"chart_loaded", "chart_error"} : L_Load(c, outcome)
          \/ L_Finally(c)
    \/ L_Stop

InitUI == InitWith({DefaultConfig}, {EmptyCache}, "few")

SpecUI == InitUI /\ [][UINext]_vars

(***************************************************************************)
(* Properties                                                              *)
(***************************************************************************)
TransportErrors == {"http500", "ConnectionError", "Timeout", "RequestException"}

WritesOf(log) == {log.writes[i] : i \in 1..Len(log.writes)}

\* the dates of the fallback window that hold a fresh, readable file
FreshInWindow ==
    {d \in (now \div 24 - 7)..(now \div 24) :
        config.cache_enabled /\ HoldsFresh(cache, d, now) /\ Truthy(cache[d].data)}

Latest(S) == CHOOSE d \in S : \A e \in S : e <= d

(* C1: no file is ever written under a date key later than the day of the  *)
(* write, no file of the directory has a key later than today, and no      *)
(* cache read, by get_rates, by its fallback or by the worker, returns the *)
(* file of a date later than today.                                        *)
C1_NoFutureDate ==
    /\ \A k \in Keys : cache[k].kind # "none" => k <= now \div 24
    /\ \A w \in WritesOf(clog) \cup WritesOf(wlog) : w.key <= w.at \div 24
    /\ clog.served # NoDate => clog.served <= now \div 24
    /\ \A d \in DOMAIN wresult : d <= now \div 24

\* get_rates has stored a payload that the provider dated after today
C1_Witness ==
    /\ cpc = "done"
    /\ \E w \in WritesOf(clog) :
          /\ w.data.Date.k = "iso"
          /\ w.data.Date.d > now \div 24
          /\ cache[w.key].data = w.data

(* C2, as claimed: a get_rates(D) call that found a fresh, readable file   *)
(* for D <= today returns its content with no network request and leaves   *)
(* the cache as it was.                                                    *)
C2_Claimed ==
    cpc = "done" /\ clog.warm =>
        /\ cresult = clog.held
        /\ clog.requests = 0
        /\ clog.writes = <<>>

(* C2, amended: with caching enabled, a get_rates(D) call that found a     *)
(* fresh, readable, non-empty file for D <= today returns its content with *)
(* no network request and leaves the cache as it was, so that a second     *)
(* call finds the same file.                                               *)
C2_WarmHit ==
    cpc = "done" /\ clog.warm /\ config.cache_enabled /\ Truthy(clog.held) =>
        /\ cresult = clog.held
        /\ clog.last = "hit"
        /\ clog.requests = 0
        /\ clog.writes = <<>>
        /\ cache[creq].data = clog.held
        /\ HoldsFresh(cache, creq, now)

C2_Witness ==
    /\ cpc = "done"
    /\ clog.warm
    /\ config.cache_enabled
    /\ Truthy(clog.held)
    /\ cresult = clog.held

(* C3: after a 404 response get_rates has returned None: the call is over, *)
(* no fallback scan was made and no sleep follows the 404 (the sleeps are  *)
(* those of the failed attempts before it).                                *)
C3_NotFoundTerminal ==
    clog.last = "http404" =>
        /\ cpc = "done"
        /\ cresult = NoPayload
        /\ clog.fallbacks = 0
        /\ clog.served = NoDate
        /\ Len(clog.sleeps) = clog.requests - 1

\* a 404 while the fallback window holds a fresh file
C3_Witness ==
    clog.last = "http404" /\ cpc = "done" /\ FreshInWindow # {}

(* C4: a call whose attempts all failed with a transport error falls back  *)
(* only after exactly max_retries attempts, and has made the fallback scan *)
(* when it returns.                                                        *)
C4_RetryThenFallback ==
    clog.last \in TransportErrors =>
        /\ clog.fallbacks > 0 => clog.requests = config.max_retries
        /\ cpc = "done" => clog.fallbacks = 1 /\ clog.requests = config.max_retries
        /\ cpc = "done" /\ cresult = NoPayload => FreshInWindow = {}

C4_Witness ==
    /\ clog.last \in TransportErrors
    /\ cpc = "done"
    /\ clog.requests = config.max_retries
    /\ config.max_retries >= 2

(* C5: after a payload that fails the validator the call is over: no       *)
(* further attempt, nothing written, and the result is that of the         *)
(* fallback scan.                                                          *)
C5_InvalidTerminal ==
    clog.last = "json" /\ ~_validate_data(clog.fetched) =>
        /\ cpc = "done"
        /\ clog.writes = <<>>
        /\ clog.fallbacks = 1
        /\ cresult = _get_last_available_cached_data(cache, now).data

\* an invalid payload on a later attempt
C5_Witness ==
    /\ clog.last = "json"
    /\ ~_validate_data(clog.fetched)
    /\ cpc = "done"
    /\ clog.requests >= 2

(* C6: a get_rates call and a _fetch_from_api call each issue at most      *)
(* max_retries requests.                                                   *)
C6_RetryBound ==
    /\ clog.requests <= config.max_retries
    /\ wlog.requests <= config.max_retries

C6_Witness ==
    /\ wlog.requests = config.max_retries
    /\ config.max_retries >= 2
    /\ wpc = "finished"

(* C7: the k-th sleep of a call lasts retry_delay * 2^(k-1); the delays    *)
(* grow strictly when retry_delay > 0; every sleep follows a failed        *)
(* attempt, and none follows the last attempt.                             *)
C7_Backoff ==
    /\ \A k \in 1..Len(clog.sleeps) : clog.sleeps[k] = config.retry_delay * 2^(k - 1)
    /\ config.retry_delay > 0 =>
          \A k \in 1..(Len(clog.sleeps) - 1) : clog.sleeps[k] < clog.sleeps[k + 1]
    /\ Len(clog.sleeps) <= clog.requests
    /\ Len(clog.sleeps) < config.max_retries \/ clog.sleeps = <<>>
    /\ cpc = "sleep" => Len(clog.sleeps) = clog.requests
    /\ clog.fallbacks > 0 /\ clog.requests > 0 => Len(clog.sleeps) < clog.requests

C7_Witness ==
    /\ Len(clog.sleeps) = 2
    /\ config.retry_delay > 0
    /\ clog.fallbacks = 1
    /\ cpc = "done"

\* the date get_rates derives from a payload whose Date is a string
DerivedDate(data, t) ==
    IF data.Date.k = "iso" /\ data.Date.d <= t \div 24 THEN data.Date.d ELSE t \div 24

(* C8, as claimed: when the fetched payload passes the validator,          *)
(* get_rates writes it to the cache under the date derived from its Date   *)
(* field, coerced to not exceed today, whatever the requested date, and    *)
(* returns the fetched payload.                                            *)
C8_Claimed ==
    cpc = "done" /\ clog.last = "json" /\ _validate_data(clog.fetched)
            /\ config.cache_enabled =>
        /\ cresult = clog.fetched
        /\ Len(clog.writes) = 1
        /\ clog.writes[1].data = clog.fetched
        /\ clog.writes[1].key = DerivedDate(clog.fetched, clog.writes[1].at)

(* C9: a payload dated after today that get_rates persists is keyed by the *)
(* day of the write, and with caching enabled a validated payload dated    *)
(* after today is written exactly once, under today.                       *)
C9_FutureUnderToday ==
    /\ \A w \in WritesOf(clog) :
          w.data.Date.k = "iso" /\ w.data.Date.d > w.at \div 24 => w.key = w.at \div 24
    /\ cpc = "done" /\ clog.last = "json" /\ _validate_data(clog.fetched)
            /\ config.cache_enabled /\ clog.fetched.Date.k = "iso"
            /\ clog.fetched.Date.d > now \div 24 =>
          /\ Len(clog.writes) = 1
          /\ clog.writes[1].key = now \div 24
          /\ clog.writes[1].data = clog.fetched

\* the future-dated payload is on disk in today's file
C9_Witness ==
    /\ cpc = "done"
    /\ clog.last = "json"
    /\ clog.fetched.Date.k = "iso"
    /\ clog.fetched.Date.d > now \div 24
    /\ Len(clog.writes) = 1
    /\ clog.writes[1].disk = "ok"
    /\ cache[now \div 24].data = clog.fetched
    /\ cache[clog.fetched.Date.d].kind = "none"

(* C10: the fallback scan of a get_rates call returns the file of the most *)
(* recent date, from today back to 7 days before today, that yields a      *)
(* cache hit, whatever the requested date, and nothing when no date of     *)
(* that window hits.                                                       *)
C10_FallbackScan ==
    cpc = "done" /\ clog.fallbacks = 1 =>
        IF FreshInWindow = {}
        THEN cresult = NoPayload /\ clog.served = NoDate
        ELSE /\ clog.served = Latest(FreshInWindow)
             /\ cresult = cache[Latest(FreshInWindow)].data
             /\ clog.served >= now \div 24 - 7

\* the scan answered a request for an earlier date with a later file
C10_Witness ==
    /\ cpc = "done"
    /\ clog.fallbacks = 1
    /\ clog.requests > 0
    /\ creq < clog.served
    /\ clog.served = now \div 24

(* C11, as claimed: when every attempt of get_rates(today) has failed with *)
(* a transport error and the cache holds a readable record for one of the  *)
(* 7 days before today, whenever its file was written, get_rates returns a *)
(* record and not the failure result.                                      *)
C11_Claimed ==
    /\ cpc = "done"
    /\ creq = now \div 24
    /\ config.cache_enabled
    /\ clog.last \in TransportErrors
    /\ clog.requests = config.max_retries
    /\ \E d \in (now \div 24 - 7)..(now \div 24 - 1) :
          cache[d].kind = "json" /\ Truthy(cache[d].data)
    => cresult # NoPayload

(* C12: a get_rates call that finds, for the requested date, a readable    *)
(* file older than cache_duration_hours does not take it for a hit: it     *)
(* goes into the retry loop, and what it returns comes from the provider   *)
(* or from the fallback scan, which never serves that date.                *)
C12_StaleIsMiss ==
    clog.file = "stale" =>
        /\ cpc \in {"loop", "sleep", "done"}
        /\ clog.last # "hit"
        /\ clog.served # creq
        /\ cpc = "done" => clog.requests > 0 \/ config.max_retries = 0

\* the stale file has been replaced by the payload just fetched
C12_Witness ==
    /\ clog.file = "stale"
    /\ config.cache_enabled
    /\ cpc = "done"
    /\ clog.last = "json"
    /\ cresult = clog.fetched
    /\ cache[creq].kind = "json"
    /\ cache[creq].mtime = now

(* C13: no request is sent for a date later than today: a get_rates call   *)
(* for a future date returns at once with zero requests, the URL builder   *)
(* gives no URL for a future date, the worker requests no future date, and *)
(* the date list of a worker built by get_rates_async holds no future      *)
(* date.                                                                   *)
C13_NoFutureRequest ==
    /\ clog.requests > 0 => creq <= now \div 24
    /\ cpc # "idle" /\ creq > now \div 24 => cpc = "done" /\ clog.requests = 0
    /\ \A d \in Keys : d > now \div 24 => _build_url_for_date(d, now) = ""
    /\ \A d \in wlog.asked : d <= now \div 24
    /\ wlog.via = "async" => \A i \in 1..Len(wdates) : wdates[i] <= now \div 24

\* a worker built directly has run over a future date without a request
C13_Witness ==
    /\ wpc = "finished"
    /\ wlog.via = "init"
    /\ wi = Len(wdates)
    /\ \E i \in 1..Len(wdates) : wdates[i] > now \div 24
    /\ wlog.asked = {}

\* the validator as the specification describes it
SpecifiedValid(data) ==
    /\ data.Date.k # "absent"
    /\ data.PreviousDate
    /\ data.Valute.present
    /\ data.Valute.entries # <<>>
    /\ CurrencyFields \subseteq data.Valute.entries[1].has

(* C14, as claimed: _validate_data returns false when the payload lacks    *)
(* Date, PreviousDate or Valute, when Valute is empty, or when the first   *)
(* currency entry lacks one of the seven required fields, and true         *)
(* otherwise.                                                              *)
C14_Claimed ==
    pcall.fn = "_validate_data" /\ pret.returned =>
        pret.value = SpecifiedValid(pcall.arg)

(* C15, as claimed: the worker's validator accepts exactly the payloads    *)
(* that the client's validator accepts.                                    *)
C15_Claimed ==
    pcall.fn = "W_validate_data" /\ pret.returned =>
        pret.value = _validate_data(pcall.arg)

(* C16, as claimed: a payload that the validator accepts holds no currency *)
(* record with Nominal <= 0.                                               *)
C16_Claimed ==
    pcall.fn = "_validate_data" /\ pret.returned /\ pret.value =>
        \A i \in 1..Len(pcall.arg.Valute.entries) :
            "Nominal" \in pcall.arg.Valute.entries[i].has =>
                pcall.arg.Valute.entries[i].Nominal > 0

HasZeroNominal(entries) ==
    \E i \in 1..Len(entries) :
        "Nominal" \in entries[i].has /\ entries[i].Nominal = 0

\* the entries of a currency map that table processing can normalise
Processable(entries) ==
    {i \in 1..Len(entries) :
        {"Nominal", "Value", "Previous", "Name"} \subseteq entries[i].has
            /\ entries[i].Nominal # 0}

(* C17: no operation that divides by the nominal lets an error reach its   *)
(* caller: table processing skips a record with nominal 0 and keeps the    *)
(* others, change calculation returns (0, 0), and conversion and both      *)
(* chart preparations return None when a record they use has nominal 0.    *)
C17_DivisionGuarded ==
    pret.returned
        /\ pcall.fn \in {"_parse_and_process", "calculate_changes",
                         "calculate_currency_conversion",
                         "get_historical_data_for_chart", "process_async_data"} =>
        /\ ~pret.raised
        /\ pcall.fn = "_parse_and_process" =>
              /\ \A i \in 1..Len(pret.value) : pret.value[i].nominal # 0
              /\ {pret.value[i].char_code : i \in 1..Len(pret.value)}
                    = Processable(pcall.arg)
        /\ pcall.fn = "calculate_changes" /\ pcall.arg[3] = 0 =>
              pret.value = <<0, 0>>
        /\ pcall.fn = "calculate_currency_conversion"
                /\ (pcall.arg.entries[pcall.arg.from_currency].Nominal = 0
                      \/ pcall.arg.entries[pcall.arg.to_currency].Nominal = 0) =>
              pret.value.none
        /\ pcall.fn \in {"get_historical_data_for_chart", "process_async_data"}
                /\ HasZeroNominal(pcall.arg.days) =>
              pret.value.none

\* table processing has skipped a record with nominal 0 and kept another
C17_Witness ==
    /\ pcall.fn = "_parse_and_process"
    /\ pret.returned
    /\ HasZeroNominal(pcall.arg)
    /\ Len(pcall.arg) = 2
    /\ Len(pret.value) = 1
\* the provider answered get_rates(today) with a valid payload dated today,
\* and no file for today was there when the call began
ScenarioA ==
    /\ cpc = "done"
    /\ creq = Today
    /\ clog.file = "none"
    /\ clog.last = "json"
    /\ _validate_data(clog.fetched)
    /\ clog.fetched.Date.k = "iso"
    /\ clog.fetched.Date.d = Today

(* C18, as claimed: in Scenario A get_rates(today) returns the payload and  *)
(* a cache read for today that follows at once returns the same data.      *)
C18_Claimed ==
    ScenarioA =>
        /\ cresult = clog.fetched
        /\ _load_from_cache(cache, Today, now) = cresult

(* C18, amended: in Scenario A, with caching enabled and the cache write    *)
(* succeeding, get_rates(today) returns the payload, a cache read for today *)
(* that follows at once returns the same data, and so a second              *)
(* get_rates(today) would be a cache hit.                                   *)
C18_ScenarioA ==
    ScenarioA /\ config.cache_enabled
              /\ (\A w \in WritesOf(clog) : w.disk = "ok") =>
        /\ cresult = clog.fetched
        /\ clog.fallbacks = 0
        /\ _load_from_cache(cache, Today, now) = cresult
        /\ Truthy(_load_from_cache(cache, Today, now))

C18_Witness ==
    /\ ScenarioA
    /\ config.cache_enabled
    /\ \E w \in WritesOf(clog) : w.disk = "ok" /\ w.key = Today
    /\ cache[Today].kind = "json"
    /\ cache[Today].data = cresult

\* the write that a step has just added to a log, when it failed
FailedWrite(before, after) ==
    /\ Len(after) = Len(before) + 1
    /\ after[Len(after)].disk # "ok"

(* C19: a step in which a cache write fails on the disk still hands the     *)
(* fetched, validated payload on: get_rates returns it without turning to  *)
(* the fallback, and the bulk worker has it in its result and goes on to   *)
(* the next date.                                                          *)
C19_WriteFailureTolerated ==
    [][ /\ FailedWrite(clog.writes, clog'.writes) =>
              /\ cpc' = "done"
              /\ cresult' = clog'.writes[Len(clog'.writes)].data
              /\ _validate_data(cresult')
              /\ clog'.fallbacks = 0
        /\ FailedWrite(wlog.writes, wlog'.writes) =>
              LET w == wlog'.writes[Len(wlog'.writes)]
              IN  /\ wpc' = "next"
                  /\ w.key \in DOMAIN wresult'
                  /\ wresult'[w.key] = w.data
      ]_vars

C19_Witness ==
    /\ cpc = "done"
    /\ clog.writes # <<>>
    /\ clog.writes[1].disk = "open_fails"
    /\ cresult = clog.writes[1].data
    /\ cache[clog.writes[1].key].kind = "none"


\* the cache directory with its unparsable files removed
WithoutCorrupt(c) ==
    [d \in DOMAIN c |-> IF c[d].kind = "corrupt" THEN NoFile ELSE c[d]]

(* C20: a cache file that cannot be parsed counts as an absent one: a read  *)
(* of any date gives what it gives with the unparsable files removed, a     *)
(* get_rates call that found such a file for its date is not a cache hit   *)
(* and goes to the provider, and the fallback scan returns what it returns *)
(* with the unparsable files removed.                                      *)
C20_CorruptAsAbsent ==
    /\ \A d \in Keys :
          _load_from_cache(cache, d, now) = _load_from_cache(WithoutCorrupt(cache), d, now)
    /\ cpc # "idle" /\ clog.file = "corrupt" =>
          /\ clog.last # "hit"
          /\ cpc = "done" /\ config.max_retries > 0 => clog.requests >= 1
    /\ cpc = "done" /\ clog.fallbacks = 1 =>
          [date |-> clog.served, data |-> cresult]
              = _get_last_available_cached_data(WithoutCorrupt(cache), now)

\* the scan passed over an unparsable file and served an older one
C20_Witness ==
    /\ cpc = "done"
    /\ clog.fallbacks = 1
    /\ clog.served # NoDate
    /\ \E d \in Keys :
          /\ d > clog.served
          /\ d <= now \div 24
          /\ cache[d].kind = "corrupt"
          /\ now - cache[d].mtime < cache_duration_hours

RunningStops == {"head", "date", "after", "emit"}

DateWork == {"read", "request", "write"}

(* C22, as claimed: once stop() has been called on a running worker, the    *)
(* worker reads the cache, requests and writes only for the date it was    *)
(* working on at that moment, and it does not emit data_ready.             *)
C22_Claimed ==
    \A w \in DOMAIN workers :
        workers[w].asked \in RunningStops =>
            /\ \A e \in workers[w].late :
                  e.kind \in DateWork =>
                      workers[w].asked = "date" /\ e.i = workers[w].stopidx
            /\ \A e \in workers[w].late :
                  e.kind \notin {"data_ready", "error_occurred"}

(* C22, amended: once stop() has been called on a running worker, the flag  *)
(* stays down, the worker reads the cache, requests and writes only for    *)
(* the date it was working on at that moment, and it emits data_ready or   *)
(* error_occurred only if the stop fell between the last test of the flag  *)
(* (lines 83, 89) and the emission that follows it (lines 84, 90).         *)
C22_Cancellation ==
    \A w \in DOMAIN workers :
        workers[w].asked \in RunningStops =>
            /\ ~workers[w]._is_running
            /\ \A e \in workers[w].late :
                  e.kind \in DateWork =>
                      workers[w].asked = "date" /\ e.i = workers[w].stopidx
            /\ \A e \in workers[w].late :
                  e.kind \in {"data_ready", "error_occurred"} =>
                      workers[w].asked = "emit"

\* a job of two dates stopped during the request for the first: the payload
\* arrived and was cached, the second date was never begun, nothing emitted
C22_Witness ==
    \E w \in DOMAIN workers :
        /\ workers[w].phase = "finished"
        /\ workers[w].asked = "date"
        /\ Len(workers[w].dates) = 2
        /\ workers[w].stopidx = 0
        /\ workers[w].i = 1
        /\ [kind |-> "write", i |-> 0] \in workers[w].late
        /\ cache[workers[w].dates[1]].kind = "json"
        /\ ~workers[w].data_ready

\* the date a worker's request is on its way for
InFlight(rec) == IF rec.phase = "request" THEN {rec.dates[rec.i + 1]} ELSE {}

(* C23, as claimed: no two workers have a request for the same date on its  *)
(* way at the same time, and two workers that both resolved a date hold    *)
(* the same value for it.                                                  *)
C23_Claimed ==
    \A w1, w2 \in DOMAIN workers :
        w1 # w2 =>
            /\ InFlight(workers[w1]) \cap InFlight(workers[w2]) = {}
            /\ \A d \in DOMAIN workers[w1].result_data \cap DOMAIN workers[w2].result_data :
                  workers[w1].result_data[d] = workers[w2].result_data[d]

(* C24, as claimed: a job over N dates emits progress (i, N) for i = 1, 2,  *)
(* ... in this order and never beyond N, the i-th emission comes before    *)
(* the work for the i-th date, and once the job was stopped no progress is *)
(* emitted for a date that was not yet begun.                              *)
C24_Claimed ==
    \A w \in DOMAIN workers :
        /\ Len(workers[w].progress) <= Len(workers[w].dates)
        /\ \A k \in 1..Len(workers[w].progress) :
              workers[w].progress[k] = <<k, Len(workers[w].dates)>>
        /\ workers[w].phase \in {"read", "fetch", "request"} =>
              Len(workers[w].progress) = workers[w].i + 1
        /\ \A e \in workers[w].late :
              e.kind = "progress" =>
                  workers[w].asked = "date" /\ e.i = workers[w].stopidx

(* C29, as claimed: a worker on which stop() was called before run began    *)
(* reads no cache file, sends no request, writes no cache file and emits   *)
(* no data_ready when run is executed.                                     *)
C29_Claimed ==
    \A w \in DOMAIN workers :
        workers[w].asked = "queued" =>
            \A e \in workers[w].late : e.kind \notin DateWork \cup {"data_ready"}

(* C30, as claimed: of two workers made by get_rates_async for the same     *)
(* currency the earlier one has been asked to stop, and get_rates_async    *)
(* for one currency stops no running worker made for another.              *)
C30_Claimed ==
    /\ \A w1, w2 \in DOMAIN workers :
          /\ w1 < w2
          /\ workers[w2].phase # "none"
          /\ workers[w1].currency_code = workers[w2].currency_code
          => workers[w1].asked # "no"
    /\ \A w \in DOMAIN workers :
          workers[w].stopper # "" /\ workers[w].asked \in RunningStops =>
              workers[w].stopper = workers[w].currency_code

\* the records prune(older_than_days) is specified to delete: those of a
\* calendar date older than the cutoff, unless their removal fails
ToPrune(before, at, older_than_days, failing) ==
    {d \in DOMAIN before : /\ before[d].kind # "none"
                           /\ DateOf(at) - d > older_than_days
                           /\ d \notin failing}

(* C25, as claimed: clear_old_cache(days) deletes the records whose date is *)
(* more than days days before today and no others, skipping the files      *)
(* whose removal fails, and returns the number of records it deleted.      *)
C25_Claimed ==
    pcall.fn = "clear_old_cache" =>
        LET arg == pcall.arg
            gone == {d \in DOMAIN arg.before :
                        arg.before[d].kind # "none" /\ cache[d].kind = "none"}
        IN  /\ gone = ToPrune(arg.before, arg.at, arg.days_to_keep, arg.failing)
            /\ \A d \in DOMAIN cache \ gone : cache[d] = arg.before[d]
            /\ pret.value = [none |-> FALSE, n |-> Cardinality(gone)]

(* C26, as claimed: constructing a client and writing a payload remove no   *)
(* file from the cache directory; only clear_old_cache does.               *)
C26_Claimed ==
    pcall.fn \in {"__init__", "_save_to_cache"} =>
        \A d \in DOMAIN cache :
            pcall.arg.before[d].kind # "none" => cache[d].kind # "none"

(* C27, as claimed: the snapshot _get_cached_daily_data hands to its        *)
(* caller after get_rates returned one is the document get_rates returned, *)
(* the content of the cache file, with no key added, removed or changed.   *)
C27_Claimed ==
    /\ pcall.fn = "_get_cached_daily_data"
    /\ pret.returned
    /\ Truthy(pcall.arg.daily_data)
    /\ pcall.arg.entry.none
    => pret.value = Snapshot(pcall.arg.daily_data)

(* C28, as claimed: the bulk worker writes a fetched payload under the key  *)
(* get_rates would write it under, the date the payload carries, brought   *)
(* down to today when it lies ahead.                                       *)
C28_Claimed ==
    \A w \in WritesOf(wlog) :
        w.key = _get_cache_date_from_data(w.data, w.at).date

(***************************************************************************)
(* The signals of one run                                                  *)
(***************************************************************************)
Count(seq, x) == Cardinality({k \in DOMAIN seq : seq[k] = x})

\* C31: every execution of run emits finished exactly once and as its last
\* signal, whether it completed, was cancelled or raised; it emits at most
\* one of data_ready and error_occurred, and _is_running is false once run
\* has returned
C31_FinishedOnce ==
    \A w \in DOMAIN workers :
        LET rec == workers[w]
            n == Len(rec.signals)
        IN  /\ Count(rec.signals, "finished") <= 1
            /\ Count(rec.signals, "data_ready")
                  + Count(rec.signals, "error_occurred") <= 1
            /\ rec.phase = "finished" =>
                  /\ n > 0
                  /\ rec.signals[n] = "finished"
                  /\ Count(rec.signals, "finished") = 1
                  /\ ~rec._is_running
            /\ rec.phase # "finished" => Count(rec.signals, "finished") = 0

\* a run that raised, reported the error and returned
C31_Witness ==
    \E w \in DOMAIN workers :
        /\ workers[w].phase = "finished"
        /\ workers[w].error_occurred
        /\ workers[w].signals[Len(workers[w].signals)] = "finished"

(***************************************************************************)
(* The result of a bulk job                                                *)
(***************************************************************************)
SeqToSet(seq) == {seq[k] : k \in DOMAIN seq}

\* C32: the bulk worker performs no fallback: every key of the result it
\* emits is one of the requested dates and its value is the valid payload
\* of that very date (the fresh cache entry or the payload fetched for
\* it); a date whose fetch failed is left out of the result, and every
\* date of the list is still worked on
C32_NoFallback ==
    \A w \in DOMAIN workers :
        LET rec == workers[w]
        IN  /\ \A D \in DOMAIN rec.result_data :
                  /\ D \in SeqToSet(rec.dates)
                  /\ rec.result_data[D] = GoodPayload(IsoDate(D))
            /\ rec.failed \cap DOMAIN rec.result_data = {}
            /\ rec.data_ready /\ rec.asked = "no" =>
                  /\ rec.i = Len(rec.dates)
                  /\ Len(rec.progress) = Len(rec.dates)
                  /\ SeqToSet(rec.dates) = rec.failed \cup DOMAIN rec.result_data

\* the fetch for the first of two dates failed while an older file lay in
\* the cache, and the second date was served
C32_Witness ==
    \E w \in DOMAIN workers :
        LET rec == workers[w]
        IN  /\ rec.data_ready
            /\ rec.asked = "no"
            /\ Len(rec.dates) = 2
            /\ rec.failed = {rec.dates[1]}
            /\ DOMAIN rec.result_data = {rec.dates[2]}
            /\ cache[rec.dates[1] - 1].kind = "json"

(***************************************************************************)
(* What get_rates and the worker change in the cache                       *)
(***************************************************************************)
\* caching on or off, and a cache directory that is empty or holds a stale
\* or a fresh file for the day of the call
WriteConfigs ==
    {[max_retries |-> 2, retry_delay |-> default_retry_delay,
      cache_enabled |-> b] : b \in BOOLEAN}

WriteCaches ==
    {EmptyCache} \cup
        {[EmptyCache EXCEPT ![StartDay] = InitFile(StartDay, kind)] :
            kind \in {"stale", "fresh"}}

InitWrites == InitWith(WriteConfigs, WriteCaches, "few")

\* get_rates calls and worker runs with caching on or off
SpecWrites == InitWrites /\ [][Next]_vars

\* the entries in which two cache directories differ
Changed(before, after) == {k \in DOMAIN before : before[k] # after[k]}

\* one more write in the log
OneWrite(before, after) == Len(after) = Len(before) + 1

(* C33: a step of get_rates changes cache entries only when it has fetched  *)
(* a payload that passed validation, and then it is the one entry it wrote *)
(* (created or overwritten with the payload when the disk write succeeds); *)
(* on every other path all entries stay as they are. A step of the bulk    *)
(* worker changes an entry only through its save after a valid fetch: with *)
(* caching off its fetch leaves every entry as it is.                      *)
C33_WritesOnlyOnFetch ==
    [][ /\ cvars' # cvars =>
              /\ Cardinality(Changed(cache, cache')) <= 1
              /\ cache' # cache =>
                    /\ cpc = "loop"
                    /\ clog'.last = "json"
                    /\ _validate_data(clog'.fetched)
                    /\ OneWrite(clog.writes, clog'.writes)
                    /\ Changed(cache, cache')
                          = {clog'.writes[Len(clog'.writes)].key}
              /\ OneWrite(clog.writes, clog'.writes) =>
                    LET w == clog'.writes[Len(clog'.writes)]
                    IN  /\ w.data = clog'.fetched
                        /\ _validate_data(w.data)
                        /\ w.disk = "ok" => cache'[w.key] = JsonFile(w.data, now)
                        /\ \A k \in Keys \ {w.key} : cache'[k] = cache[k]
        /\ wvars' # wvars =>
              /\ Cardinality(Changed(cache, cache')) <= 1
              /\ cache' # cache =>
                    /\ config.cache_enabled
                    /\ OneWrite(wlog.writes, wlog'.writes)
                    /\ W_validate_data(wlog'.writes[Len(wlog'.writes)].data)
                    /\ Changed(cache, cache')
                          = {wlog'.writes[Len(wlog'.writes)].key}
      ]_vars

\* get_rates fetched a valid payload over a stale file and overwrote it
C33_Witness ==
    /\ cpc = "done"
    /\ config.cache_enabled
    /\ clog.file = "stale"
    /\ Len(clog.writes) = 1
    /\ clog.writes[1].disk = "ok"
    /\ clog.writes[1].key = creq
    /\ cache[creq] = JsonFile(clog.fetched, clog.writes[1].at)

(***************************************************************************)
(* DataHandler's in-memory layers                                          *)
(***************************************************************************)
(* C34, as claimed: the entry of daily_cache under the key of date D holds  *)
(* a snapshot whose Date is D, and so does every snapshot that             *)
(* _get_cached_daily_data(D) serves with caching on: a fallback snapshot   *)
(* of another date is never stored or served under D.                      *)
C34_Claimed ==
    /\ \A D \in Keys :
          ~daily_cache[D].none => daily_cache[D].doc.Date = IsoDate(D)
    /\ /\ pcall.fn = "_get_cached_daily_data"
       /\ pcall.arg.cache_enabled
       /\ pret.returned
       /\ ~pret.value.none
       => pret.value.doc.Date = IsoDate(pcall.arg.target_date)

(* C35: the in-memory layer of fetch_and_process_data shadows the resolver  *)
(* for a bounded time only: a call made less than cache_duration_hours     *)
(* after the last load that left rows returns those rows and get_rates is  *)
(* not called; a call made cache_duration_hours or more after that load    *)
(* returns only after get_rates has been called.                           *)
C35_BoundedShadow ==
    pcall.fn = "fetch_and_process_data" =>
        LET a == pcall.arg
            loaded == a.last_update # NoStamp /\ a.processed_data # <<>>
            age == a.at - a.last_update
        IN  /\ loaded /\ age < cache_duration_hours =>
                  /\ pret = Returned(Rows(a.processed_data))
                  /\ cpc = "idle"
                  /\ clog = EmptyLog
                  /\ processed_data = a.processed_data
                  /\ last_update = a.last_update
            /\ loaded /\ age >= cache_duration_hours /\ pret.returned =>
                  cpc = "done"
            /\ ~loaded /\ pret.returned => cpc = "done"

\* a call made after the window of an earlier load has passed went to the
\* provider and replaced the rows
C35_Witness ==
    /\ pcall.fn = "fetch_and_process_data"
    /\ pcall.arg.last_update # NoStamp
    /\ pcall.arg.processed_data # <<>>
    /\ pcall.arg.at - pcall.arg.last_update >= cache_duration_hours
    /\ pret.returned
    /\ cpc = "done"
    /\ clog.requests > 0
    /\ last_update = now

(* C36, as claimed: the rows fetch_and_process_data(D) returns describe the *)
(* requested date: the date of every row is D, or the day of the call (the *)
(* day of its return, if midnight passed meanwhile) when D is None,        *)
(* whatever calls came before.                                             *)
C36_Claimed ==
    /\ pcall.fn = "fetch_and_process_data"
    /\ pret.returned
    /\ ~pret.raised
    /\ ~pret.value.none
    => \A k \in DOMAIN pret.value.rows :
           pret.value.rows[k].date \in
               IF pcall.arg.target_date = NoDate
               THEN {DateOf(pcall.arg.at), DateOf(now)}
               ELSE {pcall.arg.target_date}

(* C37: when get_rates returns no data, fetch_and_process_data returns None *)
(* and leaves processed_data and last_update as they were when the call    *)
(* began.                                                                  *)
C37_FailedLoadKeepsData ==
    /\ pcall.fn = "fetch_and_process_data"
    /\ pret.returned
    /\ cpc = "done"
    /\ ~Truthy(cresult)
    => /\ pret = Returned(NoRows)
       /\ processed_data = pcall.arg.processed_data
       /\ last_update = pcall.arg.last_update

\* rows were loaded, their window passed, and the next load failed with 404
C37_Witness ==
    /\ pcall.fn = "fetch_and_process_data"
    /\ pret = Returned(NoRows)
    /\ cpc = "done"
    /\ clog.last = "http404"
    /\ processed_data # <<>>
    /\ last_update < pcall.arg.at
    /\ last_update # NoStamp

(***************************************************************************)
(* Caching switched off                                                    *)
(***************************************************************************)
(* C38: with cache_enabled false no cache file is read or written by        *)
(* get_rates or by the bulk worker: no entry changes and no write is       *)
(* attempted, a get_rates call for a date that is not in the future makes  *)
(* a request, what a call returns is the validated payload it fetched or   *)
(* nothing (the fallback finds nothing), and every entry of the worker's   *)
(* result was requested from the provider.                                 *)
C38_CachingOff ==
    /\ [][~config.cache_enabled => cache' = cache]_vars
    /\ [](~config.cache_enabled =>
            /\ clog.writes = <<>>
            /\ wlog.writes = <<>>
            /\ cpc = "done" =>
                  /\ creq <= DateOf(now) => clog.requests >= 1
                  /\ clog.last # "hit"
                  /\ clog.fallbacks > 0 => cresult = NoPayload
                  /\ Truthy(cresult) =>
                        cresult = clog.fetched /\ _validate_data(cresult)
            /\ \A D \in DOMAIN wresult : D \in wlog.asked)

\* caching is off and a fresh file lies in the cache for the requested day:
\* the call went to the provider, failed, and returned nothing
C38_Witness ==
    /\ ~config.cache_enabled
    /\ cpc = "done"
    /\ HoldsFresh(cache, creq, now)
    /\ clog.requests = config.max_retries
    /\ clog.fallbacks = 1
    /\ cresult = NoPayload

(***************************************************************************)
(* The dates of a chart period                                             *)
(***************************************************************************)
(* C39, as claimed: for every end_date and every days >= 1,                 *)
(* _get_business_dates returns exactly days dates, all Monday to Friday,   *)
(* none after end_date, in strictly descending order, with no weekday      *)
(* between the oldest returned date and end_date left out.                 *)
C39_Claimed ==
    pcall.fn = "_get_business_dates" /\ pret.returned =>
        LET date_list == pret.value
            n == Len(date_list)
        IN  /\ n = pcall.arg.days
            /\ \A k \in 1..n :
                  /\ weekday(date_list[k]) < 5
                  /\ date_list[k] <= pcall.arg.end_date
            /\ \A k \in 1..(n - 1) : date_list[k] > date_list[k + 1]
            /\ n > 0 =>
                  \A d \in date_list[n]..pcall.arg.end_date :
                      weekday(d) < 5 => \E k \in 1..n : date_list[k] = d

(***************************************************************************)
(* The loading guards of the window                                        *)
(***************************************************************************)
\* the callers whose load_chart call is past its guard and has not returned
Loading == {c \in Callers : chart_loads[c] # "none"}

(* C40, as claimed: at most one refresh_data call and at most one           *)
(* load_chart call are past their guards at a time, stop() or no stop(),   *)
(* and a guard is down whenever no call is in progress behind it.          *)
C40_Claimed ==
    /\ Len(refresh_calls) <= 1
    /\ refresh_calls = <<>> => ~is_loading
    /\ Cardinality(Loading) <= 1
    /\ Loading = {} => ~chart_loader._is_running

=============================================================================
